---- MODULE Spec2Model ----
(***************************************************************************)
(* Background identifier processing of EZID (impl/backproc.py): the queue   *)
(* drainer thread (_backprocDaemon), the still-running check                *)
(* (_checkContinue) and the configuration loader (loadConfig).              *)
(*                                                                          *)
(* Threads are identified by their token (the thread name, a fresh uuid);   *)
(* tokens are modelled as 1, 2, ... in creation order, 0 stands for None.   *)
(* Time is not modelled: a sleeping thread may stay asleep for any number   *)
(* of steps of the other threads, and any single step may take arbitrarily  *)
(* long.                                                                    *)
(*                                                                          *)
(* The DataCite client (impl/datacite.py): registerIdentifier, getTargetUrl *)
(* and uploadMetadata with their attempt loops, and the count of active     *)
(* operations; deactivate and ping, which call these functions.  Callers    *)
(* are modelled as 1, 2, ...                                                *)
(*                                                                          *)
(* The record functions of impl/datacite.py: validateDcmsRecord,            *)
(* formRecord and upgradeDcmsRecord.  A record is modelled by the elements  *)
(* that these functions read or change; the text of an element is a         *)
(* sequence of words.                                                       *)
(***************************************************************************)
EXTENDS Integers, Sequences, FiniteSets, TLC

\* ------------------------------------------------------------------ bounds
MaxGen == 2            \* number of generations (threads) loadConfig may start
MaxSeq == 2            \* number of queue entries ever created
IdleInterval == 40     \* the configured idle interval
MaxAttempts == 2       \* largest configured DATACITE_NUM_ATTEMPTS
MaxCallers == 2        \* number of threads that call the DataCite client
MaxValues == 5         \* values in the text of a geolocation element
MaxApplications == 2   \* applications of upgradeDcmsRecord to one record

\* --------------------------------------------------------------- constants
WaitCeiling == 60      \* assert totalWaitTime <= 60
BatchLimit == 2        \* the [:1000] slice of the batch fetch, scaled down

Tokens == 1..MaxGen
Seqs == 1..MaxSeq
IdleSleeps == {IdleInterval}
Callers == 1..MaxCallers
Authorities == {"binder", "datacite", "crossref"}
Identifiers == {"doi:a", "ark:b"}
Operations == {"create", "update", "delete"}

Flags == {"isReserved", "updateExternalServices", "isDatacite", "isTest",
          "isCrossref"}

\* The identifier records the queue entries refer to (update_model and its
\* actualObject): identifier, operation, owner is not None, isReserved,
\* updateExternalServices, isDatacite, isTest, isCrossref.
EntryKinds ==
  << [identifier |-> "doi:a", operation |-> "create", owned |-> TRUE,
     isReserved |-> FALSE, updateExternalServices |-> TRUE,
     isDatacite |-> TRUE, isTest |-> FALSE, isCrossref |-> FALSE],
     [identifier |-> "ark:b", operation |-> "update", owned |-> FALSE,
     isReserved |-> FALSE, updateExternalServices |-> TRUE,
     isDatacite |-> FALSE, isTest |-> FALSE, isCrossref |-> TRUE],
     [identifier |-> "doi:a", operation |-> "delete", owned |-> TRUE,
     isReserved |-> TRUE, updateExternalServices |-> FALSE,
     isDatacite |-> TRUE, isTest |-> TRUE, isCrossref |-> FALSE] >>

\* ------------------------------------------------ DataCite client: values
Functions == {"registerIdentifier", "getTargetUrl", "uploadMetadata"}

\* no response: no attempt has been made or the attempt is in flight
NoResponse == [status |-> 0, body |-> <<>>]

\* o.open(r) raises an exception that is no HTTPError (URLError, timeout)
TransportError == [status |-> 0 - 1, body |-> <<>>]

\* What the network can answer an attempt with: a status and a body (the
\* body as a sequence of words): success with body OK and with a target
\* URL, a rejected URL field, other client errors, not found, server errors.
HttpResponses ==
  {[status |-> 201, body |-> <<"OK">>],
   [status |-> 200, body |-> <<"http://t">>],
   [status |-> 400, body |-> <<"[url]", "invalid">>],
   [status |-> 400, body |-> <<"[xml]", "invalid">>],
   [status |-> 404, body |-> <<>>],
   [status |-> 422, body |-> <<"[xml]", "invalid">>],
   [status |-> 500, body |-> <<>>],
   [status |-> 503, body |-> <<>>]}

Responses == HttpResponses \cup {TransportError}

\* Python values: None, str and bytes objects
None == [type |-> "None", text |-> <<>>]

Str(words) == [type |-> "str", text |-> words]

Bytes(words) == [type |-> "bytes", text |-> words]

\* c.read() and e.fp.read(): the body as a bytes object
Read(r) == Bytes(r.body)

\* a == b of Python: a bytes object never equals a str object
PyEq(a, b) == a.type = b.type /\ a.text = b.text

\* text.startswith(prefix) on the words of two objects of the same type
StartsWith(text, prefix) ==
  Len(prefix) <= Len(text) /\ SubSeq(text, 1, Len(prefix)) = prefix

\* the arguments of uploadMetadata as far as they decide its path: whether
\* formRecord accepts current+delta, whether the new record equals the old
\* one, and forceUpload
UploadArgs ==
  {a \in [requirementsMet : BOOLEAN, recordsEqual : BOOLEAN,
          forceUpload : BOOLEAN] : a.recordsEqual => a.requirementsMet}

NoArgs == [requirementsMet |-> TRUE, recordsEqual |-> FALSE,
           forceUpload |-> FALSE]

\* the arguments deactivate gives uploadMetadata: no record can be formed
\* from the empty current metadata, the placeholder record can be formed
\* from the delta, forceUpload has its default
PlaceholderArgs == [requirementsMet |-> TRUE, recordsEqual |-> FALSE,
                    forceUpload |-> FALSE]

\* the functions that call another function of the module
Wrappers == {"deactivate", "ping"}

\* how a call ends, or that it has not ended
NoResult == [kind |-> "none", type |-> "None", text |-> <<>>]

Return(v) == [kind |-> "return", type |-> v.type, text |-> v.text]

RaiseError(e) == [kind |-> "raise", type |-> e, text |-> <<>>]

Retry == [kind |-> "retry", type |-> "None", text |-> <<>>]

\* how a call of a record function ends: the value returned or the
\* exception raised, or that the call has not been made
Returns(v) == [kind |-> "return", value |-> v]

Raises(e) == [kind |-> "raise", value |-> e]

NotCalled == [kind |-> "none", value |-> "none"]

\* no record function is called
NoDocument == [fn |-> "none"]

\* the versions of the schemas loaded by loadConfig (_schemas)
Schemas == {"3", "4"}

\* a thread that is not between lines 322 and 348 of validateDcmsRecord;
\* outcome tells how its last schema validation ended
NotValidating(outcome) ==
  [at |-> "outside", version |-> "none", outcome |-> outcome]

\* the records of one owned identifier that is created and then deleted
SameIdentifierKinds ==
  << [identifier |-> "doi:a", operation |-> "create", owned |-> TRUE,
     isReserved |-> FALSE, updateExternalServices |-> TRUE,
     isDatacite |-> TRUE, isTest |-> FALSE, isCrossref |-> FALSE],
     [identifier |-> "doi:a", operation |-> "delete", owned |-> TRUE,
     isReserved |-> FALSE, updateExternalServices |-> TRUE,
     isDatacite |-> TRUE, isTest |-> FALSE, isCrossref |-> FALSE] >>

\* an owned identifier with every combination of the flags
FlagKinds ==
  {[identifier |-> "doi:a", operation |-> "create", owned |-> TRUE,
    isReserved |-> f["isReserved"],
    updateExternalServices |-> f["updateExternalServices"],
    isDatacite |-> f["isDatacite"], isTest |-> f["isTest"],
    isCrossref |-> f["isCrossref"]] : f \in [Flags -> BOOLEAN]}

\* every identifier with every operation, with or without owner
OperationKinds ==
  {[identifier |-> id, operation |-> o, owned |-> w,
    isReserved |-> FALSE, updateExternalServices |-> TRUE,
    isDatacite |-> TRUE, isTest |-> FALSE, isCrossref |-> FALSE] :
     id \in Identifiers, o \in Operations, w \in BOOLEAN}

\* the tables of identifier records of EntrySpec
EntryTables == {<<k1, k2>> : k1 \in FlagKinds, k2 \in OperationKinds}

\* one identifier with every operation, also one that
\* _updateSearchDatabase does not recognize, with or without owner
DrainKinds ==
  {[identifier |-> "doi:a", operation |-> o, owned |-> w,
    isReserved |-> FALSE, updateExternalServices |-> TRUE,
    isDatacite |-> TRUE, isTest |-> FALSE, isCrossref |-> FALSE] :
     o \in Operations \cup {"unrecognized"}, w \in BOOLEAN}

\* the tables of identifier records of DrainSpec
DrainTables == {<<k1, k2>> : k1, k2 \in DrainKinds}

VARIABLES
  enabled,         \* _enabled (None is modelled as FALSE: both are falsy)
  threadName,      \* _threadName, 0 = None
  idleSleep,       \* _idleSleep, 0 = None
  lock,            \* _lock: 0 = free, otherwise the token of the holder
  runningThreads,  \* _runningThreads
  loaderPc,        \* position of the thread that executes loadConfig
  created,         \* number of tokens created so far by uuid.uuid1()
  pc,              \* position of each drainer thread
  totalWaitTime,   \* local totalWaitTime of each drainer thread
  update_list,     \* local update_list (sequence of queue sequence numbers)
  idx,             \* position of the for loop in update_list
  projected,       \* the search projection of the current entry returned
  pending,         \* hand-offs written in the open transaction
  exc,             \* the exception e of line 156: where it was raised
  queue,           \* the UpdateQueue table: sequence numbers present
  nextSeq,         \* next sequence number the persistence layer assigns
  searchIndex,     \* SearchIdentifier table: identifier -> 0 or seq applied
  handoffs,        \* committed hand-offs: authority -> seq -> count
  table,           \* the identifier records of the store database: the
                   \* entry with sequence number s refers to record s of
                   \* the table (cyclically)
  errorLog,        \* tokens for which the hand-off assertion was logged
  dcEnabled,       \* datacite._enabled
  numAttempts,     \* datacite._numAttempts
  numActiveOperations,  \* datacite._numActiveOperations
  op,              \* the function each caller is executing, or "none"
  cpc,             \* position of each caller inside the function
  attemptI,        \* loop variable i of the attempt loop
  response,        \* what o.open(r) of the current attempt produced
  result,          \* how the call ended: the returned value or the raise
  attempts,        \* network attempts (o.open) made by the call so far
  slept,           \* time.sleep(_reattemptDelay) calls made by the call
  answered500,     \* attempts of the call that were answered HTTP 500
  args,            \* the arguments of the call that decide its path
  frame,           \* the line at which deactivate or ping waits for the
                   \* function the caller is executing, or "none"
  document,        \* the arguments of a call of formRecord,
                   \* validateDcmsRecord or upgradeDcmsRecord; the record
                   \* is changed in place by upgradeDcmsRecord
  returned,        \* how that call ended, or that it has not been made
  schemaLock,      \* _schemas[version][1]: 0 = free, otherwise the caller
                   \* that holds the lock of the version
  validation,      \* position of each caller in the schema validation of
                   \* validateDcmsRecord, the version of its record and
                   \* how its last validation ended
  further          \* history: for each generation, whether it has been
                   \* disabled or superseded since it was started and how
                   \* many entries it has deleted after that moment (none,
                   \* one, more); "untracked" in the specifications that
                   \* do not keep the history

vars == <<enabled, threadName, idleSleep, lock, runningThreads, loaderPc,
          created, pc, totalWaitTime, update_list, idx, projected, pending,
          exc, queue, nextSeq, searchIndex, handoffs, table, errorLog,
          dcEnabled, numAttempts, numActiveOperations, op, cpc, attemptI,
          response,
          result, attempts, slept, answered500, args, frame, document,
          returned, schemaLock, validation, further>>

globals == <<enabled, threadName, idleSleep, loaderPc, created, further>>
locals == <<totalWaitTime, update_list, idx, projected, pending, exc>>
store == <<queue, nextSeq, searchIndex, handoffs, table>>
calls == <<op, cpc, attemptI, response, result, attempts, slept, answered500,
           args, frame>>
records == <<document, returned, schemaLock, validation>>
client == <<dcEnabled, numAttempts, numActiveOperations, calls, records>>
drainer == <<globals, lock, runningThreads, pc, locals, store, errorLog>>

\* the record of the entry with sequence number s
entry == [s \in Seqs |-> table[((s - 1) % Len(table)) + 1]]

\* ----------------------------------------------------------------- helpers
Min(S) == CHOOSE x \in S : \A y \in S : x <= y

Max(S) == CHOOSE x \in S : \A y \in S : x >= y

RECURSIVE OrderBySeq_Descending(_)
\* mutant: the rows in descending sequence order
OrderBySeq_Descending(S) ==
  IF S = {} THEN <<>>
  ELSE <<Max(S)>> \o OrderBySeq_Descending(S \ {Max(S)})

RECURSIVE OrderBySeq(_)
\* .order_by("seq"): the rows in ascending sequence order
OrderBySeq(S) ==
  IF S = {} THEN <<>> ELSE <<Min(S)>> \o OrderBySeq(S \ {Min(S)})

\* [:1000]
Slice(s, k) == SubSeq(s, 1, IF Len(s) < k THEN Len(s) ELSE k)

FetchBatch == Slice(OrderBySeq(queue), BatchLimit)

\* mutant: the check ignores _enabled
CheckContinue_IgnoresEnabled(t) == t = threadName

\* _checkContinue, evaluated by thread t.  The two reads are not atomic in
\* the code, but _threadName equals t from the creation of thread t until it
\* changes for good, so a true result implies that both conjuncts held when
\* _enabled was read: the atomic evaluation has the same outcomes.
CheckContinue(t) == enabled /\ t = threadName

Current(t) == update_list[t][idx[t]]

\* mutant: the hand-offs are made for a reserved identifier too
Handoffs_IgnoresReserved(e) ==
  {"binder"} \cup
  (IF e.updateExternalServices
   THEN IF e.isDatacite
        THEN IF ~e.isTest THEN {"datacite"} ELSE {}
        ELSE IF e.isCrossref THEN {"crossref"} ELSE {}
   ELSE {})

\* mutant: the Crossref branch is the alternative of the whole DataCite
\* condition
Handoffs_CrossrefOtherwise(e) ==
  IF ~e.isReserved
  THEN {"binder"} \cup
       (IF e.updateExternalServices /\ e.isDatacite /\ ~e.isTest
        THEN {"datacite"}
        ELSE IF e.isCrossref THEN {"crossref"} ELSE {})
  ELSE {}

\* the hand-offs the transaction of an entry makes (lines 129-149)
Handoffs(e) ==
  IF ~e.isReserved
  THEN {"binder"} \cup
       (IF e.updateExternalServices
        THEN IF e.isDatacite
             THEN IF ~e.isTest THEN {"datacite"} ELSE {}
             ELSE IF e.isCrossref THEN {"crossref"} ELSE {}
        ELSE {})
  ELSE {}

\* _updateSearchDatabase: create/update upsert the document, delete removes it
UpdateSearchDatabase(idxTable, s) ==
  IF entry[s].operation \in {"create", "update"}
  THEN [idxTable EXCEPT ![entry[s].identifier] = s]
  ELSE [idxTable EXCEPT ![entry[s].identifier] = 0]

\* ------------------------------------------------------------------- Init
\* no drainer thread has run and the queues are empty
NothingDone ==
  /\ lock = 0
  /\ runningThreads = {}
  /\ loaderPc = "idle"
  /\ totalWaitTime = [t \in Tokens |-> 0]
  /\ update_list = [t \in Tokens |-> <<>>]
  /\ idx = [t \in Tokens |-> 0]
  /\ projected = [t \in Tokens |-> FALSE]
  /\ pending = [t \in Tokens |-> {}]
  /\ exc = [t \in Tokens |-> "none"]
  /\ queue = {}
  /\ nextSeq = 1
  /\ searchIndex = [i \in Identifiers |-> 0]
  /\ handoffs = [a \in Authorities |-> [s \in Seqs |-> 0]]
  /\ errorLog = {}

\* the module is imported: loadConfig has not run
Imported ==
  /\ enabled = FALSE
  /\ threadName = 0
  /\ idleSleep = 0
  /\ created = 0
  /\ pc = [t \in Tokens |-> "unborn"]
  /\ NothingDone

DrainerInit ==
  /\ Imported
  /\ further = [t \in Tokens |-> "untracked"]

\* history: the started generations for which the still-running check is
\* false once _enabled is en and _threadName is name have been stopped
StoppedAt(h, en, name) ==
  [t \in Tokens |->
     IF h[t] = "running" /\ pc[t] \notin {"unborn", "done"}
          /\ ~(en /\ name = t)
     THEN "none" ELSE h[t]]

\* history: generation t deletes an entry
CountDelete(h, t) ==
  [h EXCEPT ![t] = IF @ = "none" THEN "one"
                   ELSE IF @ = "one" THEN "more" ELSE @]

\* loadConfig has run once with background processing enabled: the first
\* generation is started
FirstGeneration ==
  /\ enabled = TRUE
  /\ threadName = 1
  /\ idleSleep = IdleInterval
  /\ created = 1
  /\ pc = [t \in Tokens |-> IF t = 1 THEN "register" ELSE "unborn"]
  /\ NothingDone
  /\ further = [t \in Tokens |-> "untracked"]

\* no call of the DataCite client has been made
ClientIdle ==
  /\ numActiveOperations = 0
  /\ op = [c \in Callers |-> "none"]
  /\ cpc = [c \in Callers |-> "idle"]
  /\ attemptI = [c \in Callers |-> 0]
  /\ response = [c \in Callers |-> NoResponse]
  /\ result = [c \in Callers |-> NoResult]
  /\ attempts = [c \in Callers |-> 0]
  /\ slept = [c \in Callers |-> 0]
  /\ answered500 = [c \in Callers |-> 0]
  /\ args = [c \in Callers |-> NoArgs]
  /\ frame = [c \in Callers |-> "none"]

\* no record function of the DataCite module is called
ValidatorsIdle ==
  /\ schemaLock = [v \in Schemas |-> 0]
  /\ validation = [c \in Callers |-> NotValidating("none")]

RecordsIdle ==
  /\ document = NoDocument
  /\ returned = NotCalled
  /\ ValidatorsIdle

\* the drainer as the server starts it, with the identifier records of
\* EntryKinds; the DataCite client is configured and not called
Init ==
  /\ DrainerInit
  /\ table = EntryKinds
  /\ dcEnabled = TRUE
  /\ numAttempts = MaxAttempts
  /\ ClientIdle
  /\ RecordsIdle

\* ------------------------------------------------------------- loadConfig
\* line 172: _enabled = DAEMON_THREADS_ENABLED and DAEMONS_BACKPROC_ENABLED
LoadConfigEnabled(daemonThreads, backproc) ==
  /\ loaderPc = "idle"
  /\ enabled' = (daemonThreads /\ backproc)
  /\ loaderPc' = IF daemonThreads /\ backproc THEN "start" ELSE "idle"
  /\ further' = StoppedAt(further, daemonThreads /\ backproc, threadName)
  /\ UNCHANGED <<threadName, idleSleep, created, lock, runningThreads, pc,
                 locals, store, errorLog, client>>

\* lines 177-181: the idle interval, a fresh token, the new thread
LoadConfigStart(sleep) ==
  /\ loaderPc = "start"
  /\ created < MaxGen
  /\ idleSleep' = sleep
  /\ created' = created + 1
  /\ threadName' = created + 1
  /\ further' = StoppedAt(further, enabled, created + 1)
  /\ pc' = [pc EXCEPT ![created + 1] = "register"]
  /\ loaderPc' = "idle"
  /\ UNCHANGED <<enabled, lock, runningThreads, locals, store, errorLog,
                 client>>

\* ----------------------------------------------------- persistence layer
\* an identifier changes: a new entry with the next sequence number
Arrive ==
  /\ nextSeq <= MaxSeq
  /\ queue' = queue \cup {nextSeq}
  /\ nextSeq' = nextSeq + 1
  /\ UNCHANGED <<globals, lock, runningThreads, pc, locals, searchIndex,
                 handoffs, table, errorLog, client>>

\* ---------------------------------------------------------- _backprocDaemon
\* line 65: _lock.acquire()
RegisterLock(t) ==
  /\ pc[t] = "register"
  /\ lock = 0
  /\ lock' = t
  /\ pc' = [pc EXCEPT ![t] = "register_add"]
  /\ UNCHANGED <<globals, runningThreads, locals, store, errorLog, client>>

\* lines 74-81: add the own token, release the lock, totalWaitTime = 0
Register(t) ==
  /\ pc[t] = "register_add"
  /\ lock = t
  /\ runningThreads' = runningThreads \cup {t}
  /\ lock' = 0
  /\ totalWaitTime' = [totalWaitTime EXCEPT ![t] = 0]
  /\ pc' = [pc EXCEPT ![t] = "wait_check"]
  /\ UNCHANGED <<globals, update_list, idx, projected, pending, exc, store,
                 errorLog, client>>

\* the wait loop is left: totalWaitTime is not read again
LeaveWait(t) == totalWaitTime' = [totalWaitTime EXCEPT ![t] = 0]

\* lines 83-84: while _checkContinue(): _lock.acquire()
WaitCheck(t) ==
  /\ pc[t] = "wait_check"
  /\ IF CheckContinue(t)
     THEN /\ lock = 0
          /\ lock' = t
          /\ pc' = [pc EXCEPT ![t] = "wait_poll"]
          /\ UNCHANGED totalWaitTime
     ELSE /\ pc' = [pc EXCEPT ![t] = "loop_enter"]
          /\ LeaveWait(t)
          /\ UNCHANGED lock
  /\ UNCHANGED <<globals, runningThreads, update_list, idx, projected,
                 pending, exc, store, errorLog, client>>

\* mutant: the AssertionError is not caught, the thread dies
WaitPoll_AssertKills(t) ==
  /\ pc[t] = "wait_poll"
  /\ lock = t
  /\ lock' = 0
  /\ LET n == Cardinality(runningThreads) IN
     IF n = 1
     THEN /\ pc' = [pc EXCEPT ![t] = "loop_enter"]
          /\ LeaveWait(t)
     ELSE IF ~(totalWaitTime[t] <= WaitCeiling)
          THEN /\ pc' = [pc EXCEPT ![t] = "done"]
               /\ LeaveWait(t)
          ELSE /\ totalWaitTime' =
                    [totalWaitTime EXCEPT ![t] = @ + idleSleep]
               /\ pc' = [pc EXCEPT ![t] = "wait_sleep"]
  /\ UNCHANGED <<globals, runningThreads, update_list, idx, projected,
                 pending, exc, store, errorLog, client>>

\* lines 86-98: n = len(_runningThreads) under the lock; break when n == 1;
\* the assertion fails when the accumulated wait is above the ceiling, the
\* AssertionError is caught and logged and the thread goes on to the regular
\* processing; otherwise the wait is accumulated and the thread sleeps
WaitPoll(t) ==
  /\ pc[t] = "wait_poll"
  /\ lock = t
  /\ lock' = 0
  /\ LET n == Cardinality(runningThreads) IN
     IF n = 1
     THEN /\ pc' = [pc EXCEPT ![t] = "loop_enter"]
          /\ LeaveWait(t)
          /\ UNCHANGED errorLog
     ELSE IF ~(totalWaitTime[t] <= WaitCeiling)
          THEN /\ errorLog' = errorLog \cup {t}
               /\ pc' = [pc EXCEPT ![t] = "loop_enter"]
               /\ LeaveWait(t)
          ELSE /\ totalWaitTime' =
                    [totalWaitTime EXCEPT ![t] = @ + idleSleep]
               /\ pc' = [pc EXCEPT ![t] = "wait_sleep"]
               /\ UNCHANGED errorLog
  /\ UNCHANGED <<globals, runningThreads, update_list, idx, projected,
                 pending, exc, store, client>>

\* line 96: time.sleep(_idleSleep) returns
WaitSleep(t) ==
  /\ pc[t] = "wait_sleep"
  /\ pc' = [pc EXCEPT ![t] = "wait_check"]
  /\ UNCHANGED <<globals, lock, runningThreads, locals, store, errorLog,
                 client>>

\* mutant: the loop is left only when the thread has been superseded
LoopCheck_IgnoresEnabled(t) ==
  /\ pc[t] \in {"loop_enter", "loop_check"}
  /\ pc' = [pc EXCEPT ![t] = IF threadName = t THEN "fetch"
                                               ELSE "deregister"]
  /\ UNCHANGED <<globals, lock, runningThreads, locals, store, errorLog,
                 client>>

\* line 100: while _checkContinue(), evaluated for the first time after the
\* wait loop ("loop_enter") or again after a batch or a sleep ("loop_check")
LoopCheck(t) ==
  /\ pc[t] \in {"loop_enter", "loop_check"}
  /\ pc' = [pc EXCEPT ![t] = IF CheckContinue(t) THEN "fetch"
                                                 ELSE "deregister"]
  /\ UNCHANGED <<globals, lock, runningThreads, locals, store, errorLog,
                 client>>

\* lines 102-107, 151: the batch fetch; an empty batch leads to the idle sleep
Fetch(t) ==
  /\ pc[t] = "fetch"
  /\ IF Len(FetchBatch) > 0
     THEN /\ update_list' = [update_list EXCEPT ![t] = FetchBatch]
          /\ idx' = [idx EXCEPT ![t] = 1]
          /\ pc' = [pc EXCEPT ![t] = "entry_check"]
     ELSE /\ pc' = [pc EXCEPT ![t] = "idle"]
          /\ UNCHANGED <<update_list, idx>>
  /\ UNCHANGED <<globals, lock, runningThreads, totalWaitTime, projected,
                 pending, exc, store, errorLog, client>>

\* mutant: the thread ends after the idle sleep
IdleSleep_EndsLoop(t) ==
  /\ pc[t] = "idle"
  /\ pc' = [pc EXCEPT ![t] = "deregister"]
  /\ UNCHANGED <<globals, lock, runningThreads, locals, store, errorLog,
                 client>>

\* lines 152-155: connections closed, time.sleep(_idleSleep) returns
IdleSleep(t) ==
  /\ pc[t] = "idle"
  /\ pc' = [pc EXCEPT ![t] = "loop_check"]
  /\ UNCHANGED <<globals, lock, runningThreads, locals, store, errorLog,
                 client>>

\* the for loop is left (its end, a break or an exception): update_list and
\* the loop position are not read again before the next fetch assigns them;
\* an open transaction is rolled back
LeaveBatch(t) ==
  /\ update_list' = [update_list EXCEPT ![t] = <<>>]
  /\ idx' = [idx EXCEPT ![t] = 0]
  /\ projected' = [projected EXCEPT ![t] = FALSE]
  /\ pending' = [pending EXCEPT ![t] = {}]

\* mutant: the search projection is skipped for every entry
EntryCheck_NoProjection(t) ==
  /\ pc[t] = "entry_check"
  /\ IF idx[t] > Len(update_list[t]) \/ ~CheckContinue(t)
     THEN /\ pc' = [pc EXCEPT ![t] = "loop_check"]
          /\ LeaveBatch(t)
     ELSE /\ pc' = [pc EXCEPT ![t] = "txn"]
          /\ UNCHANGED <<update_list, idx, projected, pending>>
  /\ UNCHANGED <<globals, lock, runningThreads, totalWaitTime, exc, store,
                 errorLog, client>>

\* mutant: the search projection is made for an identifier without owner
EntryCheck_IgnoresOwner(t) ==
  /\ pc[t] = "entry_check"
  /\ IF idx[t] > Len(update_list[t]) \/ ~CheckContinue(t)
     THEN /\ pc' = [pc EXCEPT ![t] = "loop_check"]
          /\ LeaveBatch(t)
     ELSE /\ pc' = [pc EXCEPT ![t] = "search"]
          /\ UNCHANGED <<update_list, idx, projected, pending>>
  /\ UNCHANGED <<globals, lock, runningThreads, totalWaitTime, exc, store,
                 errorLog, client>>

\* lines 108-114: the next entry of the batch, or the end of the for loop;
\* break when _checkContinue() is false; the search projection is skipped
\* for an identifier without owner
EntryCheck(t) ==
  /\ pc[t] = "entry_check"
  /\ IF idx[t] > Len(update_list[t]) \/ ~CheckContinue(t)
     THEN /\ pc' = [pc EXCEPT ![t] = "loop_check"]
          /\ LeaveBatch(t)
     ELSE /\ pc' = [pc EXCEPT ![t] = IF entry[Current(t)].owned
                                      THEN "search" ELSE "txn"]
          /\ UNCHANGED <<update_list, idx, projected, pending>>
  /\ UNCHANGED <<globals, lock, runningThreads, totalWaitTime, exc, store,
                 errorLog, client>>

\* lines 116-125: _updateSearchDatabase returns (the operation is one of
\* the three it recognizes, lines 50-55)
SearchOk(t) ==
  /\ pc[t] = "search"
  /\ entry[Current(t)].operation \in Operations
  /\ searchIndex' = UpdateSearchDatabase(searchIndex, Current(t))
  /\ projected' = [projected EXCEPT ![t] = TRUE]
  /\ pc' = [pc EXCEPT ![t] = "txn"]
  /\ UNCHANGED <<globals, lock, runningThreads, totalWaitTime, update_list,
                 idx, pending, exc, queue, nextSeq, handoffs, table, errorLog,
                 client>>

\* lines 56-57, 156-161: the operation of the entry is none of the three;
\* assert False raises AssertionError, which is not an AbortException and
\* leaves the for loop through the except clause of line 156; nothing is
\* deleted
SearchAssert(t) ==
  /\ pc[t] = "search"
  /\ entry[Current(t)].operation \notin Operations
  /\ exc' = [exc EXCEPT ![t] = "search"]
  /\ LeaveBatch(t)
  /\ pc' = [pc EXCEPT ![t] = "exc"]
  /\ UNCHANGED <<globals, lock, runningThreads, totalWaitTime, store,
                 errorLog, client>>

\* lines 116-125: _updateSearchDatabase fails with a connection error inside
\* withAutoReconnect
SearchFail(t) ==
  /\ pc[t] = "search"
  /\ pc' = [pc EXCEPT ![t] = "search_failed"]
  /\ UNCHANGED <<globals, lock, runningThreads, locals, store, errorLog,
                 client>>

\* impl.search_util.withAutoReconnect after a connection error: it calls the
\* function again while the continuation check (_checkContinue) holds and
\* raises AbortException once it does not
AutoReconnectRetries(t) == CheckContinue(t)

\* mutant: the AbortException is swallowed and the entry is handled further
SearchRetry_AbortIgnored(t) ==
  /\ pc[t] = "search_failed"
  /\ pc' = [pc EXCEPT ![t] = IF AutoReconnectRetries(t) THEN "search"
                                                          ELSE "txn"]
  /\ UNCHANGED <<globals, lock, runningThreads, locals, store, errorLog,
                 client>>

\* lines 116-127: withAutoReconnect retries the projection, or raises
\* AbortException, which the except clause turns into a break
SearchRetry(t) ==
  /\ pc[t] = "search_failed"
  /\ IF AutoReconnectRetries(t)
     THEN /\ pc' = [pc EXCEPT ![t] = "search"]
          /\ UNCHANGED <<update_list, idx, projected, pending>>
     ELSE /\ pc' = [pc EXCEPT ![t] = "loop_check"]
          /\ LeaveBatch(t)
  /\ UNCHANGED <<globals, lock, runningThreads, totalWaitTime, exc, store,
                 errorLog, client>>

\* lines 128-149: the transaction opens and the hand-offs of the entry are
\* written in it
TxnEnqueue(t) ==
  /\ pc[t] = "txn"
  /\ pending' = [pending EXCEPT ![t] = Handoffs(entry[Current(t)])]
  /\ pc' = [pc EXCEPT ![t] = "txn_delete"]
  /\ UNCHANGED <<globals, lock, runningThreads, totalWaitTime, update_list,
                 idx, projected, exc, store, errorLog, client>>

\* enqueueIdentifier of impl.binder_async, impl.datacite_async and
\* impl.crossref: a row in the queue of the authority, written in the open
\* transaction of thread t; here the rows as the commit adds them
CommitHandoffs(h, t) ==
  [a \in Authorities |->
     IF a \in pending[t] THEN [h[a] EXCEPT ![Current(t)] = @ + 1] ELSE h[a]]

\* line 150 and the end of the with block: update_model.delete() (deleting
\* a row that is already gone deletes nothing) and the commit of the
\* transaction; the for loop goes on to the next entry
TxnDelete(t) ==
  /\ pc[t] = "txn_delete"
  /\ handoffs' = CommitHandoffs(handoffs, t)
  /\ queue' = queue \ {Current(t)}
  /\ pending' = [pending EXCEPT ![t] = {}]
  /\ projected' = [projected EXCEPT ![t] = FALSE]
  /\ idx' = [idx EXCEPT ![t] = @ + 1]
  /\ pc' = [pc EXCEPT ![t] = "entry_check"]
  /\ further' = IF Current(t) \in queue THEN CountDelete(further, t)
                                         ELSE further
  /\ UNCHANGED <<enabled, threadName, idleSleep, loaderPc, created, lock,
                 runningThreads, totalWaitTime, update_list, exc, nextSeq,
                 searchIndex, table, errorLog, client>>

RaisingPcs == {"fetch", "search", "txn", "txn_delete"}

\* mutant: the delete is committed although the exception is raised
Raise_DeleteCommitted(t) ==
  /\ pc[t] \in RaisingPcs
  /\ exc' = [exc EXCEPT ![t] = pc[t]]
  /\ LeaveBatch(t)
  /\ queue' = IF pc[t] = "txn_delete" THEN queue \ {Current(t)} ELSE queue
  /\ pc' = [pc EXCEPT ![t] = "exc"]
  /\ UNCHANGED <<globals, lock, runningThreads, totalWaitTime, nextSeq,
                 searchIndex, handoffs, table, errorLog, client>>

\* mutant: no handler, the exception ends the loop
Raise_EndsLoop(t) ==
  /\ pc[t] \in RaisingPcs
  /\ LeaveBatch(t)
  /\ pc' = [pc EXCEPT ![t] = "deregister"]
  /\ UNCHANGED <<globals, lock, runningThreads, totalWaitTime, exc, store,
                 errorLog, client>>

\* mutant: no transaction, every enqueue is committed as it is made
Raise_Autocommit(t) ==
  /\ pc[t] \in RaisingPcs
  /\ exc' = [exc EXCEPT ![t] = pc[t]]
  /\ LeaveBatch(t)
  /\ handoffs' = CommitHandoffs(handoffs, t)
  /\ pc' = [pc EXCEPT ![t] = "exc"]
  /\ UNCHANGED <<globals, lock, runningThreads, totalWaitTime, queue,
                 nextSeq, searchIndex, table, errorLog, client>>

\* lines 156-161: an exception inside the try block (the fetch, toLegacy,
\* the projection, an enqueue, the delete or the commit raises); an open
\* transaction is rolled back on the way out of the with block; the error
\* is logged and the connections are closed
Raise(t) ==
  /\ pc[t] \in RaisingPcs
  /\ exc' = [exc EXCEPT ![t] = pc[t]]
  /\ LeaveBatch(t)
  /\ pc' = [pc EXCEPT ![t] = "exc"]
  /\ UNCHANGED <<globals, lock, runningThreads, totalWaitTime, store,
                 errorLog, client>>

\* line 162: time.sleep(_idleSleep) returns
ExcSleep(t) ==
  /\ pc[t] = "exc"
  /\ exc' = [exc EXCEPT ![t] = "none"]
  /\ pc' = [pc EXCEPT ![t] = "loop_check"]
  /\ UNCHANGED <<globals, lock, runningThreads, totalWaitTime, update_list,
                 idx, projected, pending, store, errorLog, client>>

\* line 163: _lock.acquire()
DeregisterLock(t) ==
  /\ pc[t] = "deregister"
  /\ lock = 0
  /\ lock' = t
  /\ pc' = [pc EXCEPT ![t] = "deregister_remove"]
  /\ UNCHANGED <<globals, runningThreads, locals, store, errorLog, client>>

\* mutant: the token of the current generation is removed
Deregister_RemovesCurrent(t) ==
  /\ pc[t] = "deregister_remove"
  /\ lock = t
  /\ runningThreads' = runningThreads \ {threadName}
  /\ lock' = 0
  /\ pc' = [pc EXCEPT ![t] = "done"]
  /\ UNCHANGED <<globals, locals, store, errorLog, client>>

\* lines 165-167: remove the own token, release the lock, the thread ends
Deregister(t) ==
  /\ pc[t] = "deregister_remove"
  /\ lock = t
  /\ runningThreads' = runningThreads \ {t}
  /\ lock' = 0
  /\ pc' = [pc EXCEPT ![t] = "done"]
  /\ UNCHANGED <<globals, locals, store, errorLog, client>>

\* ------------------------------------------------- DataCite client: calls
\* _HTTPErrorProcessor.http_response: 201 is no error; otherwise the
\* standard processor, for which the statuses 200..299 are no error
IsSuccess(status) == status = 201 \/ (200 <= status /\ status < 300)

\* mutant: the test for the last attempt is off by one
LastAttempt_OffByOne(c) == attemptI[c] = numAttempts

\* i == _numAttempts - 1
LastAttempt(c) == attemptI[c] = numAttempts - 1

\* mutant: every server error is retried
RetryStatus_Any5xx(code) == code >= 500

\* e.code != 500 decides that the HTTPError is raised at once
RetryStatus(code) == code = 500

\* mutant: every 400 response is returned as a message
UrlRejection_Any400(code, message) == code = 400

\* e.code == 400 and message.startswith(b"[url]")
UrlRejection(code, message) ==
  code = 400 /\ message.type = "bytes" /\ StartsWith(message.text, <<"[url]">>)

\* mutant: only a 400 response is returned as a message
ValidationRejection_Only400(code) == code = 400

\* e.code in (400, 422) of uploadMetadata
ValidationRejection(code) == code \in {400, 422}

\* mutant: a 404 is an error like any other
NotRegistered_Never(code) == FALSE

\* e.code == 404 of getTargetUrl
NotRegistered(code) == code = 404

\* except Exception: raised on the last attempt, swallowed otherwise
OnException(e, last) == IF last THEN RaiseError(e) ELSE Retry

\* except urllib.error.HTTPError, after the function's own returns
OnHTTPError(code, last) ==
  IF ~RetryStatus(code) \/ last THEN RaiseError("HTTPError") ELSE Retry

\* registerIdentifier, lines 172-190: the outcome of one attempt
RegisterOutcome(r, last) ==
  IF r = TransportError THEN OnException("URLError", last)
  ELSE IF IsSuccess(r.status)
  THEN IF PyEq(Read(r), Str(<<"OK">>))
       THEN Return(None)
       ELSE OnException("AssertionError", last)
  ELSE IF UrlRejection(r.status, Read(r)) THEN Return(Read(r))
  ELSE OnHTTPError(r.status, last)

\* getTargetUrl, lines 230-243: the outcome of one attempt
GetTargetUrlOutcome(r, last) ==
  IF r = TransportError THEN OnException("URLError", last)
  ELSE IF IsSuccess(r.status) THEN Return(Read(r))
  ELSE IF NotRegistered(r.status) THEN Return(None)
  ELSE OnHTTPError(r.status, last)

\* uploadMetadata, lines 525-546: the outcome of one attempt;
\* s.startswith("OK") raises TypeError when s is a bytes object
UploadOutcome(r, last) ==
  IF r = TransportError THEN OnException("URLError", last)
  ELSE IF IsSuccess(r.status)
  THEN IF Read(r).type # "str" THEN OnException("TypeError", last)
       ELSE IF StartsWith(Read(r).text, <<"OK">>) THEN Return(None)
       ELSE OnException("AssertionError", last)
  ELSE IF ValidationRejection(r.status)
  THEN Return(Str(<<"element 'datacite': ">> \o Read(r).text))
  ELSE OnHTTPError(r.status, last)

\* _deactivate, lines 566-582: the outcome of one attempt; after the
\* break the function returns None
DeactivateOutcome(r, last) ==
  IF r = TransportError THEN OnException("URLError", last)
  ELSE IF IsSuccess(r.status)
  THEN IF PyEq(Read(r), Str(<<"OK">>))
       THEN Return(None)
       ELSE OnException("AssertionError", last)
  ELSE OnHTTPError(r.status, last)

\* pingDataciteOnly, lines 662-670: the outcome of one attempt; the
\* response is compared with _pingTarget, a str object, and every
\* exception (an HTTPError too) gives "down" on the last attempt
PingOutcome(r, last) ==
  IF r # TransportError /\ IsSuccess(r.status)
       /\ PyEq(Read(r), Str(<<"http://t">>))
  THEN Return(Str(<<"up">>))
  ELSE IF last THEN Return(Str(<<"down">>)) ELSE Retry

Outcome(f, r, last) ==
  IF f = "registerIdentifier" THEN RegisterOutcome(r, last)
  ELSE IF f = "getTargetUrl" THEN GetTargetUrlOutcome(r, last)
  ELSE IF f = "_deactivate" THEN DeactivateOutcome(r, last)
  ELSE IF f = "pingDataciteOnly" THEN PingOutcome(r, last)
  ELSE UploadOutcome(r, last)

\* mutant: an unchanged record is never uploaded, forced or not
BeforeLoop_IgnoresForce(f, a) ==
  IF f = "registerIdentifier"
  THEN IF ~dcEnabled THEN Return(None) ELSE Retry
  ELSE IF f \in {"getTargetUrl", "_deactivate"} THEN Retry
  ELSE IF f = "pingDataciteOnly"
  THEN IF ~dcEnabled THEN Return(Str(<<"up">>)) ELSE Retry
  ELSE IF ~a.requirementsMet
       THEN Return(Str(<<"DOI metadata requirements not satisfied">>))
       ELSE IF a.recordsEqual THEN Return(None)
       ELSE IF ~dcEnabled THEN Return(None)
       ELSE Retry

\* mutant: the enabled flag is not consulted
BeforeLoop_IgnoresEnabled(f, a) ==
  IF f = "uploadMetadata" /\ ~a.requirementsMet
  THEN Return(Str(<<"DOI metadata requirements not satisfied">>))
  ELSE IF f = "uploadMetadata" /\ a.recordsEqual /\ ~a.forceUpload
       THEN Return(None)
       ELSE Retry

\* what is decided before the attempt loop: registerIdentifier lines
\* 154-155, uploadMetadata lines 499-512, pingDataciteOnly lines 649-650,
\* nothing in getTargetUrl; Retry stands for entering the loop
BeforeLoop(f, a) ==
  IF f = "registerIdentifier"
  THEN IF ~dcEnabled THEN Return(None) ELSE Retry
  ELSE IF f \in {"getTargetUrl", "_deactivate"} THEN Retry
  ELSE IF f = "pingDataciteOnly"
  THEN IF ~dcEnabled THEN Return(Str(<<"up">>)) ELSE Retry
  ELSE IF ~a.requirementsMet
       THEN Return(Str(<<"DOI metadata requirements not satisfied">>))
       ELSE IF a.recordsEqual /\ ~a.forceUpload THEN Return(None)
       ELSE IF ~dcEnabled THEN Return(None)
       ELSE Retry

\* caller c ends the call with result v
EndCall(c, v) ==
  /\ result' = [result EXCEPT ![c] = v]
  /\ cpc' = [cpc EXCEPT ![c] = "done"]

\* caller c enters function f: the part before the attempt loop and
\* for i in range(_numAttempts)
Enter(c, f, a) ==
  /\ cpc[c] = "idle"
  /\ op' = [op EXCEPT ![c] = f]
  /\ args' = [args EXCEPT ![c] = a]
  /\ IF BeforeLoop(f, a) # Retry THEN EndCall(c, BeforeLoop(f, a))
     ELSE IF numAttempts = 0 THEN EndCall(c, Return(None))
     ELSE /\ cpc' = [cpc EXCEPT ![c] = "attempt"]
          /\ UNCHANGED result
  /\ UNCHANGED <<records, dcEnabled, numAttempts, numActiveOperations,
                 attemptI, response, attempts, slept, answered500>>

\* a thread of the server calls function f
Call(c, f, a) == Enter(c, f, a) /\ UNCHANGED <<drainer, frame>>

\* the thread of the DataCite queue (impl.datacite_async) is one caller
DataciteWorker == 1

\* the worker of the DataCite queue takes the row handed off for entry s
\* and calls the client for it: uploadMetadata and registerIdentifier for
\* an identifier that was created or updated
WorkerCall(s, f) ==
  /\ handoffs["datacite"][s] > 0
  /\ entry[s].operation \in {"create", "update"}
  /\ handoffs' = [handoffs EXCEPT !["datacite"][s] = @ - 1]
  /\ Enter(DataciteWorker, f, NoArgs)
  /\ UNCHANGED <<globals, lock, runningThreads, pc, locals, queue, nextSeq,
                 searchIndex, table, errorLog, frame>>

\* mutant: the counter is not decremented
ModifyActiveCount_NeverDecrements(delta) ==
  numActiveOperations' =
    numActiveOperations + (IF delta > 0 THEN delta ELSE 0)

\* _modifyActiveCount: _numActiveOperations += delta while _lock is held
ModifyActiveCount(delta) ==
  numActiveOperations' = numActiveOperations + delta

\* _modifyActiveCount(1) and the start of o.open(r, timeout=_timeout)
Open(c) ==
  /\ cpc[c] = "attempt"
  /\ ModifyActiveCount(1)
  /\ attempts' = [attempts EXCEPT ![c] = @ + 1]
  /\ cpc' = [cpc EXCEPT ![c] = "open"]
  /\ UNCHANGED <<drainer, records, dcEnabled, numAttempts, op, attemptI,
                 response, result, slept, answered500, args, frame>>

\* o.open returns the response or raises: what the network answers
Respond(c, r) ==
  /\ cpc[c] = "open"
  /\ response' = [response EXCEPT ![c] = r]
  /\ answered500' = [answered500 EXCEPT ![c] =
                        IF r.status = 500 THEN @ + 1 ELSE @]
  /\ cpc' = [cpc EXCEPT ![c] = "handle"]
  /\ UNCHANGED <<drainer, records, dcEnabled, numAttempts,
                 numActiveOperations, op, attemptI, result, attempts, slept,
                 args, frame>>

\* the rest of the try statement: the handlers, the else clause and the
\* finally clause with _modifyActiveCount(-1)
Handle(c) ==
  /\ cpc[c] = "handle"
  /\ ModifyActiveCount(0 - 1)
  /\ LET o == Outcome(op[c], response[c], LastAttempt(c)) IN
     IF o = Retry
     THEN /\ cpc' = [cpc EXCEPT ![c] = "sleep"]
          /\ UNCHANGED result
     ELSE EndCall(c, o)
  /\ UNCHANGED <<drainer, records, dcEnabled, numAttempts, op, attemptI,
                 response, attempts, slept, answered500, args, frame>>

\* time.sleep(_reattemptDelay) returns and the for loop goes on; when the
\* range is exhausted the function returns None
Sleep(c) ==
  /\ cpc[c] = "sleep"
  /\ slept' = [slept EXCEPT ![c] = @ + 1]
  /\ attemptI' = [attemptI EXCEPT ![c] = @ + 1]
  /\ response' = [response EXCEPT ![c] = NoResponse]
  /\ IF attemptI[c] + 1 < numAttempts
     THEN /\ cpc' = [cpc EXCEPT ![c] = "attempt"]
          /\ UNCHANGED result
     ELSE EndCall(c, Return(None))
  /\ UNCHANGED <<drainer, records, dcEnabled, numAttempts,
                 numActiveOperations, op, attempts, answered500, args, frame>>

\* the caller has the result: its locals are gone
Finish(c) ==
  /\ cpc[c] = "done"
  /\ frame[c] = "none"
  /\ op' = [op EXCEPT ![c] = "none"]
  /\ cpc' = [cpc EXCEPT ![c] = "idle"]
  /\ attemptI' = [attemptI EXCEPT ![c] = 0]
  /\ response' = [response EXCEPT ![c] = NoResponse]
  /\ result' = [result EXCEPT ![c] = NoResult]
  /\ attempts' = [attempts EXCEPT ![c] = 0]
  /\ slept' = [slept EXCEPT ![c] = 0]
  /\ answered500' = [answered500 EXCEPT ![c] = 0]
  /\ args' = [args EXCEPT ![c] = NoArgs]
  /\ UNCHANGED <<drainer, records, dcEnabled, numAttempts,
                 numActiveOperations, frame>>

\* deactivate, lines 603-606, and ping, lines 635-639: the function returns
\* at once when DataCite is disabled and calls _deactivate or setTargetUrl
\* (which is registerIdentifier) otherwise
CallWrapper(c, w) ==
  /\ cpc[c] = "idle"
  /\ IF ~dcEnabled
     THEN /\ op' = [op EXCEPT ![c] = w]
          /\ EndCall(c, IF w = "ping" THEN Return(Str(<<"up">>))
                                      ELSE Return(None))
          /\ UNCHANGED <<records, dcEnabled, numAttempts,
                         numActiveOperations, attemptI, response, attempts,
                         slept, answered500, args, frame>>
     ELSE /\ Enter(c, IF w = "ping" THEN "registerIdentifier"
                                    ELSE "_deactivate", NoArgs)
          /\ frame' = [frame EXCEPT ![c] =
                         IF w = "ping" THEN "ping639" ELSE "deactivate606"]
  /\ UNCHANGED drainer

\* the waiting function w ends with v
Leave(c, w, v) ==
  /\ op' = [op EXCEPT ![c] = w]
  /\ frame' = [frame EXCEPT ![c] = "none"]
  /\ result' = [result EXCEPT ![c] = v]
  /\ UNCHANGED <<cpc, attemptI, response, attempts, slept, answered500,
                 args>>

\* the waiting function calls f and waits for it at line fr
Nested(c, f, a, fr) ==
  /\ op' = [op EXCEPT ![c] = f]
  /\ args' = [args EXCEPT ![c] = a]
  /\ frame' = [frame EXCEPT ![c] = fr]
  /\ attemptI' = [attemptI EXCEPT ![c] = 0]
  /\ response' = [response EXCEPT ![c] = NoResponse]
  /\ attempts' = [attempts EXCEPT ![c] = 0]
  /\ slept' = [slept EXCEPT ![c] = 0]
  /\ answered500' = [answered500 EXCEPT ![c] = 0]
  /\ IF BeforeLoop(f, a) # Retry THEN EndCall(c, BeforeLoop(f, a))
     ELSE IF numAttempts = 0 THEN EndCall(c, Return(None))
     ELSE /\ cpc' = [cpc EXCEPT ![c] = "attempt"]
          /\ result' = [result EXCEPT ![c] = NoResult]

\* e.code == 404 of deactivate: the HTTPError raised by _deactivate carries
\* the status of the last response
NoRecord(c) ==
  /\ result[c].kind = "raise"
  /\ result[c].type = "HTTPError"
  /\ response[c].status = 404

\* the function called by deactivate or ping has ended: ping, lines
\* 640-644, and deactivate, lines 607-629
Resume(c) ==
  /\ cpc[c] = "done"
  /\ frame[c] # "none"
  /\ LET r == result[c] IN
     CASE frame[c] = "ping639" ->
            Leave(c, "ping", IF r = Return(None) THEN Return(Str(<<"up">>))
                                                ELSE Return(Str(<<"down">>)))
       [] frame[c] = "deactivate606" ->
            IF NoRecord(c)
            THEN Nested(c, "uploadMetadata", PlaceholderArgs, "deactivate612")
            ELSE Leave(c, "deactivate",
                       IF r.kind = "raise" THEN r ELSE Return(None))
       [] frame[c] = "deactivate612" ->
            IF r = Return(None)
            THEN Nested(c, "_deactivate", NoArgs, "deactivate626")
            ELSE Leave(c, "deactivate",
                       IF r.kind = "raise" THEN r
                       ELSE RaiseError("AssertionError"))
       [] frame[c] = "deactivate626" ->
            Leave(c, "deactivate",
                  IF r.kind = "raise" THEN r ELSE Return(None))
  /\ UNCHANGED <<drainer, records, dcEnabled, numAttempts,
                 numActiveOperations>>

\* ------------------------------------------- DataCite module: records
\* the scheme prefixes of the identifiers given to the record functions
Schemes == {"doi:", "ark:/", "uuid:", "urn:"}

\* mutant: every identifier is taken for a DOI
IdentifierType_AlwaysDoi(scheme) == "DOI"

\* the identifier type derived from the scheme prefix (lines 308-318 and
\* 410-420), "none" when the scheme is not recognized
IdentifierType(scheme) ==
  IF scheme = "doi:" THEN "DOI"
  ELSE IF scheme = "ark:/" THEN "ARK"
  ELSE IF scheme = "uuid:" THEN "UUID"
  ELSE "none"

\* an XML element of a record: its text (None when it has none) and its
\* children; Absent when the record has no such element
Absent == [present |-> FALSE, text |-> None, children |-> <<>>]

Element(text, children) ==
  [present |-> TRUE, text |-> text, children |-> children]

\* the text of a geolocation element with n whitespace-separated values
\* (the values are numbered in the order of the text), or no text at all
Coords(n) == [i \in 1..n |-> i]

\* a geoLocationBox: none, or one with text only
Boxes ==
  {Absent, Element(None, <<>>)}
    \cup {Element(Str(Coords(n)), <<>>) : n \in 0..MaxValues}

\* a geoLocationPoint: as a box, or one with sub-elements
Points ==
  Boxes \cup {Element(None, <<[tag |-> "pointLongitude", text |-> 2],
                              [tag |-> "pointLatitude", text |-> 1]>>)}

\* the values of resourceTypeGeneral of the resourceType elements
ResourceTypes ==
  {<<>>,
   <<[general |-> "Film", text |-> "t"]>>,
   <<[general |-> "Text", text |-> "t"]>>,
   <<[general |-> "Film", text |-> "t"], [general |-> "Text", text |-> "t"]>>}

\* the dates element with the dateType of each date
DateLists ==
  {Absent, Element(None, <<"StartDate">>),
   Element(None, <<"StartDate", "Issued">>)}

ContributorLists ==
  {Absent,
   Element(None, <<[contributorType |-> "Funder",
                    contributorName |-> "NSF"]>>),
   Element(None, <<[contributorType |-> "Funder",
                    contributorName |-> "NSF"],
                   [contributorType |-> "Editor",
                    contributorName |-> "E"]>>)}

\* the xsi:schemaLocation attribute of the root: the namespace and the
\* location of the schema
NoLocation == [namespace |-> <<>>, xsd |-> <<>>]

Location(ns, v) == [namespace |-> <<"kernel-", ns>>, xsd |-> <<"kernel-", v>>]

\* the identifier elements of a record
IdentifierLists ==
  {<<>>,
   <<[identifierType |-> "DOI", text |-> "x"],
     [identifierType |-> "DOI", text |-> "x"]>>}
    \cup {<<[identifierType |-> t, text |-> "x"]>> :
            t \in {"DOI", "ARK", "UUID", "none"}}

\* the records given to upgradeDcmsRecord
UpgradeRecords ==
  [version : {"2.2", "3", "4"}, schemaLocation : {NoLocation},
   identifiers : {<<[identifierType |-> "DOI", text |-> "x"]>>},
   resourceType : ResourceTypes, dates : DateLists,
   contributors : ContributorLists, funding : {<<>>},
   point : Points, box : Boxes]

\* the records given to validateDcmsRecord
ValidateRecords ==
  [version : {"2.2", "3", "4", "9"}, schemaLocation : {NoLocation},
   identifiers : IdentifierLists,
   resourceType : {<<[general |-> "Text", text |-> "t"]>>},
   dates : {Absent}, contributors : {Absent}, funding : {<<>>},
   point : {Absent}, box : {Absent}]

\* the XML prolog of the record text
Prologs ==
  {[present |-> FALSE, version |-> "", encoding |-> "none"],
   [present |-> TRUE, version |-> "1.0", encoding |-> "utf8"],
   [present |-> TRUE, version |-> "1.0", encoding |-> "latin-1"],
   [present |-> TRUE, version |-> "1.1", encoding |-> "none"]}

\* _utf8RE: UTF-?8$, ignoring case
IsUtf8(encoding) == encoding \in {"UTF-8", "UTF8", "utf-8", "utf8"}

\* the schema versions upgraded before validation (line 296)
Deprecated == {"2.1", "2.2"}

\* mutant: no record is taken for a current one
IsCurrent_Never(version) == FALSE

\* m.group(1) == "4": the record is of the latest version
IsCurrent(version) == version = "4"

\* lines 762-770: Film becomes Audiovisual, a missing resource type is
\* supplied
FixResourceType(rt) ==
  IF Len(rt) = 1
  THEN <<[rt[1] EXCEPT !.general = IF @ = "Film" THEN "Audiovisual" ELSE @]>>
  ELSE <<[general |-> "Other", text |-> "(:unav)"]>>

\* lines 773-778: the dates of type StartDate and EndDate are removed, and
\* the container when it is left empty
FixDates(e) ==
  LET kept == SelectSeq(e.children,
                        LAMBDA t : t \notin {"StartDate", "EndDate"})
  IN IF ~e.present THEN e
     ELSE IF kept = <<>> THEN Absent
     ELSE [e EXCEPT !.children = kept]

\* lines 784-793: the Funder contributors are removed, and the container
\* when it is left empty
FixContributors(e) ==
  LET kept == SelectSeq(e.children,
                        LAMBDA c : c.contributorType # "Funder")
  IN IF ~e.present THEN e
     ELSE IF kept = <<>> THEN Absent
     ELSE [e EXCEPT !.children = kept]

\* lines 780-790: the names of the Funder contributors become funding
\* references
FundingReferences(fr, e) ==
  LET funders == SelectSeq(e.children,
                           LAMBDA c : c.contributorType = "Funder")
  IN IF ~e.present THEN fr
     ELSE fr \o [i \in 1..Len(funders) |-> funders[i].contributorName]

\* len(e) == 0 of a geolocation element that is in the record
Childless(e) == e.present /\ Len(e.children) = 0

\* e.text.split() raises AttributeError when e.text is None
SplitRaises(e) == Childless(e) /\ e.text.type # "str"

\* lines 795-804: a point with two values gets the second value as
\* longitude and the first as latitude; with another number of values
\* it is removed; a point that has sub-elements is left alone
FixPoint(e) ==
  IF ~Childless(e) THEN e
  ELSE IF Len(e.text.text) = 2
  THEN Element(None, <<[tag |-> "pointLongitude", text |-> e.text.text[2]],
                       [tag |-> "pointLatitude", text |-> e.text.text[1]]>>)
  ELSE Absent

\* lines 805-816: the same for a box with four values
FixBox(e) ==
  IF ~Childless(e) THEN e
  ELSE IF Len(e.text.text) = 4
  THEN Element(None,
         <<[tag |-> "westBoundLongitude", text |-> e.text.text[2]],
           [tag |-> "eastBoundLongitude", text |-> e.text.text[4]],
           [tag |-> "southBoundLatitude", text |-> e.text.text[1]],
           [tag |-> "northBoundLatitude", text |-> e.text.text[3]]>>)
  ELSE Absent

\* upgradeDcmsRecord, lines 733-821
UpgradeDcmsRecord(r) ==
  IF IsCurrent(r.version)
  THEN Returns([r EXCEPT !.schemaLocation = Location("4", "4")])
  ELSE IF Len(r.resourceType) > 1 THEN Raises("AssertionError")
  ELSE IF SplitRaises(r.point) \/ SplitRaises(r.box)
  THEN Raises("AttributeError")
  ELSE Returns([r EXCEPT !.schemaLocation = Location("4", "4"),
                         !.version = "4",
                         !.resourceType = FixResourceType(@),
                         !.dates = FixDates(@),
                         !.funding = FundingReferences(@, r.contributors),
                         !.contributors = FixContributors(@),
                         !.point = FixPoint(@),
                         !.box = FixBox(@)])

\* the calls of upgradeDcmsRecord: the record and how often the function
\* has been applied to it
UpgradeDocuments ==
  [fn : {"upgradeDcmsRecord"}, record : UpgradeRecords, applications : {0}]

\* the calls of validateDcmsRecord: the identifier, the prolog of the
\* text, what parsing the text gives (an error, a root that is no DataCite
\* resource, a resource), the record, schemaValidate and what the schema
\* says about the record
ValidateDocuments ==
  [fn : {"validateDcmsRecord"}, scheme : Schemes, body : {"10.5072/FK2"},
   prolog : Prologs, parse : {"error", "other", "resource"},
   record : ValidateRecords, schemaValidate : BOOLEAN,
   schemaValid : BOOLEAN]

\* validateDcmsRecord, lines 274-363
ValidateDcmsRecord(d) ==
  IF d.prolog.present /\ d.prolog.version # "1.0"
  THEN Raises("unsupported XML version")
  ELSE IF d.prolog.present /\ d.prolog.encoding # "none"
            /\ ~IsUtf8(d.prolog.encoding)
  THEN Raises("XML encoding must be UTF-8")
  ELSE IF d.parse = "error" THEN Raises("XML parse error")
  ELSE IF d.parse # "resource" THEN Raises("not a DataCite record")
  ELSE LET up == IF d.record.version \in Deprecated
                 THEN UpgradeDcmsRecord(d.record)
                 ELSE Returns(d.record)
       IN
    IF up.kind = "raise" THEN up
    ELSE IF up.value.version \notin Schemas
    THEN Raises("unsupported DataCite record version")
    ELSE IF ~(Len(up.value.identifiers) = 1
                /\ up.value.identifiers[1].identifierType # "none")
    THEN Raises("malformed DataCite record: no <identifier> element")
    ELSE IF IdentifierType(d.scheme) = "none"
    THEN Raises("unrecognized identifier scheme")
    ELSE IF up.value.identifiers[1].identifierType # IdentifierType(d.scheme)
    THEN Raises("mismatch between identifier type and <identifier> element")
    ELSE IF d.schemaValidate /\ ~d.schemaValid
    THEN Raises("schema validation error")
    ELSE Returns([up.value EXCEPT
                    !.identifiers =
                      <<[identifierType |-> IdentifierType(d.scheme),
                         text |-> d.body]>>,
                    !.schemaLocation = Location("%s", up.value.version)])

\* metadata.get(k, default)
Get(m, k, default) == IF k \in DOMAIN m THEN m[k] ELSE default

\* value.strip(): a value is a blank or has no white space
Strip(value) == IF value = " " THEN "" ELSE value

\* mutant: a field counts as supplied when its key is in the dictionary
HasText_Present(m, k) == k \in DOMAIN m

\* metadata.get(k, "").strip() != ""
HasText(m, k) == Strip(Get(m, k, "")) # ""

\* the metadata dictionaries: a profile field, a DataCite record, a
\* Crossref record and a DataCite title, each absent or with a value
MetadataValues ==
  [k \in {"_p", "datacite", "crossref", "datacite.title"} |->
     IF k = "_p" THEN {"crossref"}
     ELSE IF k = "datacite" THEN {" ", "<resource/>"}
     ELSE IF k = "crossref" THEN {" ", "<doi_batch/>"}
     ELSE {" ", "T"}]

Metadata ==
  UNION {{m \in [K -> UNION {MetadataValues[k] : k \in K}] :
            \A k \in K : m[k] \in MetadataValues[k]} :
         K \in SUBSET DOMAIN MetadataValues}

\* mutant: the publication date is not required
Required_WithoutDate == <<"creator", "title", "publisher">>

\* the required fields in the order of line 452
Required == <<"creator", "title", "publisher", "date">>

\* the calls of formRecord: the identifier, supplyMissing, profile, the
\* metadata, what impl.mapping.map makes of the metadata (each field None
\* or a value; validatedDate is the date in normal form, None when there
\* is no date or the date is not a valid one) and whether the Crossref
\* record can be converted
FormDocuments ==
  {d \in [fn : {"formRecord"}, scheme : Schemes, body : {"10.5072/FK2"},
          supplyMissing : BOOLEAN, profile : {"None", "crossref"},
          metadata : Metadata,
          km : [{"creator", "title", "publisher", "date"}
                  -> {None, Str(<<"v">>)}],
          validatedDate : {None, Str(<<"2001", "-05-17">>)},
          convertOk : BOOLEAN] :
     d.km["date"] = None => d.validatedDate = None}

\* the fields of a record that was not made by the mapping
NoFields ==
  [creator |-> None, title |-> None, publisher |-> None,
   publicationYear |-> None]

\* the value of field a of km after the loop of lines 452-457 has
\* supplied the missing fields
Supplied(km, a) == IF km[a] = None THEN Str(<<"(:unav)">>) ELSE km[a]

\* d[:4] if d else "0000": the first four characters of the validated
\* date
PublicationYear(d) ==
  IF d = None THEN Str(<<"0000">>) ELSE Str(<<d.text[1]>>)

\* the first required field that km lacks, 0 if there is none
FirstMissing(km) ==
  IF \E i \in 1..Len(Required) : km[Required[i]] = None
  THEN Min({i \in 1..Len(Required) : km[Required[i]] = None})
  ELSE 0

\* formRecord, lines 410-480
FormRecord(d) ==
  LET m == d.metadata
      profile == IF d.profile = "None"
                 THEN Get(m, "_p", Get(m, "_profile", "erc"))
                 ELSE d.profile
  IN
  IF IdentifierType(d.scheme) = "none" THEN Raises("unhandled case")
  ELSE IF HasText(m, "datacite")
  THEN Returns([source |-> "datacite", encoding |-> "UTF-8",
                body |-> m["datacite"], overrides |-> {},
                fields |-> NoFields])
  ELSE IF profile = "crossref" /\ HasText(m, "crossref")
  THEN IF d.convertOk
       THEN Returns([source |-> "crossref", encoding |-> "UTF-8",
                     body |-> Strip(m["crossref"]),
                     overrides |->
                       {<<"_idType", IdentifierType(d.scheme)>>,
                        <<"_id", d.body>>}
                       \cup (IF HasText(m, "datacite.title")
                             THEN {<<"datacite.title",
                                     Strip(m["datacite.title"])>>}
                             ELSE {}),
                     fields |-> NoFields])
       ELSE Raises("Crossref to DataCite metadata conversion error")
  ELSE IF FirstMissing(d.km) # 0 /\ ~d.supplyMissing
  THEN Raises(<<"no", IF Required[FirstMissing(d.km)] = "date"
                      THEN "publication date"
                      ELSE Required[FirstMissing(d.km)]>>)
  ELSE Returns([source |-> "mapped", encoding |-> "UTF-8", body |-> "",
                overrides |-> {},
                fields |->
                  [creator |-> Supplied(d.km, "creator"),
                   title |-> Supplied(d.km, "title"),
                   publisher |-> Supplied(d.km, "publisher"),
                   publicationYear |-> PublicationYear(d.validatedDate)]])

\* a thread calls formRecord
FormRecordCall ==
  /\ document.fn = "formRecord"
  /\ returned.kind = "none"
  /\ returned' = FormRecord(document)
  /\ UNCHANGED <<drainer, dcEnabled, numAttempts, numActiveOperations,
                 calls, document, schemaLock, validation>>

\* a thread calls validateDcmsRecord
ValidateCall ==
  /\ document.fn = "validateDcmsRecord"
  /\ returned.kind = "none"
  /\ returned' = ValidateDcmsRecord(document)
  /\ UNCHANGED <<drainer, dcEnabled, numAttempts, numActiveOperations,
                 calls, document, schemaLock, validation>>

\* a thread calls upgradeDcmsRecord, with the record or with the record
\* that the last call returned
UpgradeCall ==
  /\ document.fn = "upgradeDcmsRecord"
  /\ document.applications < MaxApplications
  /\ returned.kind # "raise"
  /\ returned' = UpgradeDcmsRecord(document.record)
  /\ document' = [document EXCEPT
                    !.applications = @ + 1,
                    !.record = IF returned'.kind = "return"
                               THEN returned'.value ELSE @]
  /\ UNCHANGED <<drainer, dcEnabled, numAttempts, numActiveOperations,
                 calls, schemaLock, validation>>

\* ------------------------------- DataCite module: the schema validation
\* lines 322-329: a call of validateDcmsRecord with schemaValidate set has
\* passed the tests of lines 274-321 with a record of version v and comes
\* to schema[1].acquire()
ValidationStart(c, v) ==
  /\ validation[c].at = "outside"
  /\ validation' = [validation EXCEPT ![c].at = "acquire", ![c].version = v]
  /\ UNCHANGED <<drainer, dcEnabled, numAttempts, numActiveOperations,
                 calls, document, returned, schemaLock>>

\* line 329: schema[1].acquire() returns
SchemaAcquire(c) ==
  /\ validation[c].at = "acquire"
  /\ schemaLock[validation[c].version] = 0
  /\ schemaLock' = [schemaLock EXCEPT ![validation[c].version] = c]
  /\ validation' = [validation EXCEPT ![c].at = "validate"]
  /\ UNCHANGED <<drainer, dcEnabled, numAttempts, numActiveOperations,
                 calls, document, returned>>

\* lines 330-345: the validator accepts the record, or it raises and the
\* except clause raises the AssertionError; either way the finally clause
\* is next
SchemaValidate(c, valid) ==
  /\ validation[c].at = "validate"
  /\ validation' = [validation EXCEPT
                      ![c].at = "finally",
                      ![c].outcome = IF valid THEN "return" ELSE "raise"]
  /\ UNCHANGED <<drainer, dcEnabled, numAttempts, numActiveOperations,
                 calls, document, returned, schemaLock>>

\* mutant: the lock is released after the try statement, not in a finally
\* clause
SchemaRelease_NoFinally(c) ==
  /\ validation[c].at = "finally"
  /\ schemaLock' = IF validation[c].outcome = "return"
                   THEN [schemaLock EXCEPT ![validation[c].version] = 0]
                   ELSE schemaLock
  /\ validation' = [validation EXCEPT
                      ![c] = NotValidating(validation[c].outcome)]
  /\ UNCHANGED <<drainer, dcEnabled, numAttempts, numActiveOperations,
                 calls, document, returned>>

\* lines 346-347: schema[1].release(); the function goes on to line 348
\* or the AssertionError leaves it
SchemaRelease(c) ==
  /\ validation[c].at = "finally"
  /\ schemaLock' = [schemaLock EXCEPT ![validation[c].version] = 0]
  /\ validation' = [validation EXCEPT
                      ![c] = NotValidating(validation[c].outcome)]
  /\ UNCHANGED <<drainer, dcEnabled, numAttempts, numActiveOperations,
                 calls, document, returned>>

\* ------------------------------------------------------------------- Next
Next ==
  \/ \E a, b \in BOOLEAN : LoadConfigEnabled(a, b)
  \/ \E s \in IdleSleeps : LoadConfigStart(s)
  \/ Arrive
  \/ \E t \in Tokens : RegisterLock(t)
  \/ \E t \in Tokens : Register(t)
  \/ \E t \in Tokens : WaitCheck(t)
  \/ \E t \in Tokens : WaitPoll(t)
  \/ \E t \in Tokens : WaitSleep(t)
  \/ \E t \in Tokens : LoopCheck(t)
  \/ \E t \in Tokens : Fetch(t)
  \/ \E t \in Tokens : IdleSleep(t)
  \/ \E t \in Tokens : EntryCheck(t)
  \/ \E t \in Tokens : SearchOk(t)
  \/ \E t \in Tokens : SearchFail(t)
  \/ \E t \in Tokens : SearchRetry(t)
  \/ \E t \in Tokens : TxnEnqueue(t)
  \/ \E t \in Tokens : TxnDelete(t)
  \/ \E t \in Tokens : Raise(t)
  \/ \E t \in Tokens : ExcSleep(t)
  \/ \E t \in Tokens : DeregisterLock(t)
  \/ \E t \in Tokens : Deregister(t)

Spec == Init /\ [][Next]_vars

\* The drainer as the server starts it, with the identifier records of
\* SameIdentifierKinds.
SameIdentifierInit ==
  /\ DrainerInit
  /\ table = SameIdentifierKinds
  /\ dcEnabled = TRUE
  /\ numAttempts = MaxAttempts
  /\ ClientIdle
  /\ RecordsIdle

SameIdentifierSpec == SameIdentifierInit /\ [][Next]_vars

\* The drainer as the server starts it, with the history of what each
\* generation does after it has been disabled or superseded.
HistoryInit ==
  /\ Imported
  /\ further = [t \in Tokens |-> "running"]
  /\ table = EntryKinds
  /\ dcEnabled = TRUE
  /\ numAttempts = MaxAttempts
  /\ ClientIdle
  /\ RecordsIdle

HistorySpec == HistoryInit /\ [][Next]_vars

\* The drainer with its first generation only, for any identifier records:
\* a later loadConfig finds background processing disabled (the thread is
\* alone, so it never sleeps in the wait loop).
EntryInit ==
  /\ FirstGeneration
  /\ table \in EntryTables
  /\ dcEnabled = TRUE
  /\ numAttempts = MaxAttempts
  /\ ClientIdle
  /\ RecordsIdle

EntryNext ==
  \/ \E b \in BOOLEAN : LoadConfigEnabled(FALSE, b)
  \/ Arrive
  \/ \E t \in Tokens : RegisterLock(t)
  \/ \E t \in Tokens : Register(t)
  \/ \E t \in Tokens : WaitCheck(t)
  \/ \E t \in Tokens : WaitPoll(t)
  \/ \E t \in Tokens : LoopCheck(t)
  \/ \E t \in Tokens : Fetch(t)
  \/ \E t \in Tokens : IdleSleep(t)
  \/ \E t \in Tokens : EntryCheck(t)
  \/ \E t \in Tokens : SearchOk(t)
  \/ \E t \in Tokens : SearchFail(t)
  \/ \E t \in Tokens : SearchRetry(t)
  \/ \E t \in Tokens : TxnEnqueue(t)
  \/ \E t \in Tokens : TxnDelete(t)
  \/ \E t \in Tokens : Raise(t)
  \/ \E t \in Tokens : ExcSleep(t)
  \/ \E t \in Tokens : DeregisterLock(t)
  \/ \E t \in Tokens : Deregister(t)

EntrySpec == EntryInit /\ [][EntryNext]_vars

\* The drainer with its first generation only, whose steps do not fail for
\* a reason outside the entry: no connection error and no exception other
\* than the assertion of _updateSearchDatabase.
DrainInit ==
  /\ FirstGeneration
  /\ table \in DrainTables
  /\ dcEnabled = TRUE
  /\ numAttempts = MaxAttempts
  /\ ClientIdle
  /\ RecordsIdle

DrainNext ==
  \/ \E b \in BOOLEAN : LoadConfigEnabled(FALSE, b)
  \/ Arrive
  \/ \E t \in Tokens : RegisterLock(t)
  \/ \E t \in Tokens : Register(t)
  \/ \E t \in Tokens : WaitCheck(t)
  \/ \E t \in Tokens : WaitPoll(t)
  \/ \E t \in Tokens : LoopCheck(t)
  \/ \E t \in Tokens : Fetch(t)
  \/ \E t \in Tokens : IdleSleep(t)
  \/ \E t \in Tokens : EntryCheck(t)
  \/ \E t \in Tokens : SearchOk(t)
  \/ \E t \in Tokens : SearchAssert(t)
  \/ \E t \in Tokens : TxnEnqueue(t)
  \/ \E t \in Tokens : TxnDelete(t)
  \/ \E t \in Tokens : ExcSleep(t)
  \/ \E t \in Tokens : DeregisterLock(t)
  \/ \E t \in Tokens : Deregister(t)

\* the steps of thread t in DrainNext
DrainStep(t) ==
  \/ RegisterLock(t) \/ Register(t) \/ WaitCheck(t) \/ WaitPoll(t)
  \/ LoopCheck(t) \/ Fetch(t) \/ IdleSleep(t) \/ EntryCheck(t)
  \/ SearchOk(t) \/ SearchAssert(t) \/ TxnEnqueue(t) \/ TxnDelete(t)
  \/ ExcSleep(t) \/ DeregisterLock(t) \/ Deregister(t)

\* the thread keeps being scheduled and every sleep ends
DrainSpec ==
  DrainInit /\ [][DrainNext]_vars /\ \A t \in Tokens : WF_vars(DrainStep(t))

\* The DataCite client after datacite.loadConfig, called by one thread of
\* the server at a time; the drainer is not started.
OneCaller == {Min(Callers)}

DataciteInit ==
  /\ DrainerInit
  /\ table = EntryKinds
  /\ dcEnabled \in BOOLEAN
  /\ numAttempts \in 1..MaxAttempts
  /\ ClientIdle
  /\ RecordsIdle

DataciteNext ==
  \/ \E c \in OneCaller : \E f \in Functions \cup {"pingDataciteOnly"} :
       \E a \in IF f = "uploadMetadata" THEN UploadArgs ELSE {NoArgs} :
         Call(c, f, a)
  \/ \E c \in OneCaller : \E w \in Wrappers : CallWrapper(c, w)
  \/ \E c \in OneCaller : Open(c)
  \/ \E c \in OneCaller : \E r \in Responses : Respond(c, r)
  \/ \E c \in OneCaller : Handle(c)
  \/ \E c \in OneCaller : Sleep(c)
  \/ \E c \in OneCaller : Resume(c)
  \/ \E c \in OneCaller : Finish(c)

DataciteSpec == DataciteInit /\ [][DataciteNext]_vars

\* The DataCite client called by several threads of the server at the same
\* time: registrations that the registry accepts, answers with an error
\* status or does not answer.
ConcurrentResponses ==
  {r \in Responses : r.status \in {201, 404, 500} \/ r = TransportError}

ConcurrentNext ==
  \/ \E c \in Callers : Call(c, "registerIdentifier", NoArgs)
  \/ \E c \in Callers : Open(c)
  \/ \E c \in Callers : \E r \in ConcurrentResponses : Respond(c, r)
  \/ \E c \in Callers : Handle(c)
  \/ \E c \in Callers : Sleep(c)
  \/ \E c \in Callers : Finish(c)

ConcurrentSpec == DataciteInit /\ [][ConcurrentNext]_vars

\* The record functions of the DataCite module, each called with one of
\* the documents; the drainer is not started and the client is not called.
RecordInit ==
  /\ DrainerInit
  /\ table = EntryKinds
  /\ dcEnabled = TRUE
  /\ numAttempts = MaxAttempts
  /\ ClientIdle
  /\ document \in FormDocuments \cup ValidateDocuments \cup UpgradeDocuments
  /\ returned = NotCalled
  /\ ValidatorsIdle

RecordNext ==
  \/ FormRecordCall
  \/ ValidateCall
  \/ UpgradeCall

RecordSpec == RecordInit /\ [][RecordNext]_vars

\* The schema validation of validateDcmsRecord, called by several threads
\* of the server with records of the loaded schema versions; the drainer is
\* not started and the client is not called.
ValidationInit ==
  /\ DrainerInit
  /\ table = EntryKinds
  /\ dcEnabled = TRUE
  /\ numAttempts = MaxAttempts
  /\ ClientIdle
  /\ RecordsIdle

ValidationNext ==
  \/ \E c \in Callers : \E v \in Schemas : ValidationStart(c, v)
  \/ \E c \in Callers : SchemaAcquire(c)
  \/ \E c \in Callers : \E valid \in BOOLEAN : SchemaValidate(c, valid)
  \/ \E c \in Callers : SchemaRelease(c)

\* the steps of caller c between acquire and release
ValidatorStep(c) ==
  (\E valid \in BOOLEAN : SchemaValidate(c, valid)) \/ SchemaRelease(c)

\* a thread inside the validator keeps being scheduled
ValidationSpec ==
  ValidationInit /\ [][ValidationNext]_vars
    /\ \A c \in Callers : WF_vars(ValidatorStep(c))

\* The pipeline: the first generation of the drainer with the identifier
\* records of EntryKinds, the worker of the DataCite queue and the DataCite
\* client, with the DataCite integration enabled or not.
PipelineInit ==
  /\ FirstGeneration
  /\ table = EntryKinds
  /\ dcEnabled \in BOOLEAN
  /\ numAttempts = MaxAttempts
  /\ ClientIdle
  /\ RecordsIdle

PipelineNext ==
  \/ \E b \in BOOLEAN : LoadConfigEnabled(FALSE, b)
  \/ Arrive
  \/ \E t \in Tokens : RegisterLock(t)
  \/ \E t \in Tokens : Register(t)
  \/ \E t \in Tokens : WaitCheck(t)
  \/ \E t \in Tokens : WaitPoll(t)
  \/ \E t \in Tokens : LoopCheck(t)
  \/ \E t \in Tokens : Fetch(t)
  \/ \E t \in Tokens : IdleSleep(t)
  \/ \E t \in Tokens : EntryCheck(t)
  \/ \E t \in Tokens : SearchOk(t)
  \/ \E t \in Tokens : SearchFail(t)
  \/ \E t \in Tokens : SearchRetry(t)
  \/ \E t \in Tokens : TxnEnqueue(t)
  \/ \E t \in Tokens : TxnDelete(t)
  \/ \E t \in Tokens : Raise(t)
  \/ \E t \in Tokens : ExcSleep(t)
  \/ \E t \in Tokens : DeregisterLock(t)
  \/ \E t \in Tokens : Deregister(t)
  \/ \E s \in Seqs : \E f \in {"uploadMetadata", "registerIdentifier"} :
       WorkerCall(s, f)
  \/ Open(DataciteWorker)
  \/ \E r \in Responses : Respond(DataciteWorker, r)
  \/ Handle(DataciteWorker)
  \/ Sleep(DataciteWorker)
  \/ Finish(DataciteWorker)

PipelineSpec == PipelineInit /\ [][PipelineNext]_vars

\* the steps thread t takes by itself when it is scheduled (an exception or
\* a connection error is not one of them)
ThreadStep(t) ==
  \/ RegisterLock(t) \/ Register(t) \/ WaitCheck(t) \/ WaitPoll(t)
  \/ WaitSleep(t) \/ LoopCheck(t) \/ Fetch(t) \/ IdleSleep(t)
  \/ EntryCheck(t) \/ SearchOk(t) \/ SearchRetry(t) \/ TxnEnqueue(t)
  \/ TxnDelete(t) \/ ExcSleep(t) \/ DeregisterLock(t) \/ Deregister(t)

\* every started thread keeps being scheduled and every sleep ends
FairSpec == Spec /\ \A t \in Tokens : WF_vars(ThreadStep(t))

\* ================================================================ claims
\* positions at which a thread is handling the entry Current(t)
EntryPcs == {"search", "search_failed", "txn", "txn_delete"}

\* ---------------------------------------------------------------------
\* C1: within one generation the entries are processed in strictly
\* ascending sequence order: while a thread handles the entry at position
\* idx of its batch, the batch is strictly ascending, every earlier entry of
\* the batch has been applied and deleted, and no entry with a lower
\* sequence number is left in the queue.
C1_AscendingOrder ==
  \A t \in Tokens :
    pc[t] \in EntryPcs =>
      /\ \A i, j \in 1..Len(update_list[t]) :
           i < j => update_list[t][i] < update_list[t][j]
      /\ \A j \in 1..(idx[t] - 1) : update_list[t][j] \notin queue
      /\ \A s \in queue : Current(t) <= s

\* a thread handles the second entry of a batch
C1_Witness ==
  \E t \in Tokens :
    pc[t] \in EntryPcs /\ idx[t] = 2 /\ Current(t) \in queue

\* ---------------------------------------------------------------------
\* the step deletes the entry s from the queue
Deletes(s) == s \in queue /\ s \notin queue'

\* C2 as stated: an entry is deleted only by a thread whose search
\* projection of it has returned and whose hand-offs for it have been made,
\* or for a reserved identifier.
C2_Original ==
  [][\A s \in Seqs :
       Deletes(s) =>
         \E t \in Tokens :
           /\ pc[t] = "txn_delete"
           /\ Current(t) = s
           /\ \/ projected[t] /\ "binder" \in pending[t]
              \/ entry[s].isReserved]_vars

\* C2 as amended: an entry is deleted only by a thread whose search
\* projection of it has returned or was skipped because the identifier has
\* no owner, and whose hand-offs for it have been made or were skipped
\* because the identifier is reserved; an entry whose projection raised or
\* was aborted is not deleted.
C2_DeleteAfterEffects ==
  [][\A s \in Seqs :
       Deletes(s) =>
         \E t \in Tokens :
           /\ pc[t] = "txn_delete"
           /\ Current(t) = s
           /\ projected[t] \/ ~entry[s].owned
           /\ IF entry[s].isReserved THEN pending[t] = {}
              ELSE "binder" \in pending[t]]_vars

\* an entry without owner and an owned entry have both been deleted
C2_Witness ==
  \E s1, s2 \in Seqs :
    /\ s1 < nextSeq /\ s2 < nextSeq
    /\ s1 \notin queue /\ s2 \notin queue
    /\ entry[s1].owned /\ ~entry[s2].owned
    /\ searchIndex[entry[s1].identifier] # 0

\* ---------------------------------------------------------------------
\* the authorities whose committed hand-offs for s grow in the step
Committed(s) == {a \in Authorities : handoffs'[a][s] # handoffs[a][s]}

\* C3: the hand-offs of an entry and its deletion commit together or not at
\* all: a step either commits one hand-off to every authority the entry
\* requires and leaves the entry deleted, or commits none and deletes
\* nothing; a step in which the transaction raises commits nothing.
C3_AtomicHandoff ==
  [][/\ \A s \in Seqs :
          \/ Committed(s) = {} /\ ~Deletes(s)
          \/ /\ Committed(s) = Handoffs(entry[s])
             /\ \A a \in Committed(s) : handoffs'[a][s] = handoffs[a][s] + 1
             /\ s \notin queue'
     /\ \A t \in Tokens :
          pc[t] \in {"txn", "txn_delete"} /\ pc'[t] = "exc" =>
            handoffs' = handoffs /\ queue' = queue]_vars

\* the transaction of the first entry, which had written its hand-offs,
\* raised: no hand-off is committed and the entry is in the queue
C3_Witness ==
  \E t \in Tokens :
    /\ pc[t] = "exc" /\ exc[t] = "txn_delete"
    /\ Handoffs(entry[1]) # {}
    /\ 1 \in queue
    /\ \A a \in Authorities : \A s \in Seqs : handoffs[a][s] = 0

\* ---------------------------------------------------------------------
\* the generations that are handling a queue entry
Handling == {t \in Tokens : pc[t] \in EntryPcs}

\* C4: at most one generation at a time is inside the regular processing
\* loop handling a queue entry.
C4_AtMostOneHandling == Cardinality(Handling) <= 1

\* ---------------------------------------------------------------------
\* C5: an exception aborts the batch without losing data: the step that
\* raises deletes no entry and commits no hand-off, so the failing entry and
\* the later entries of the batch that are in the queue stay in it; the
\* handler ends with the sleep and leads back to the loop check; a fetch
\* starts the batch at the lowest sequence number in the queue.
C5_AbortKeepsEntries ==
  [][\A t \in Tokens :
       /\ pc[t] \in RaisingPcs /\ pc'[t] = "exc" =>
            /\ queue' = queue /\ handoffs' = handoffs
            /\ \A j \in 1..Len(update_list[t]) :
                 j >= idx[t] /\ update_list[t][j] \in queue =>
                   update_list[t][j] \in queue'
       /\ pc[t] = "exc" /\ pc'[t] # "exc" => pc'[t] = "loop_check"
       /\ pc[t] = "fetch" /\ pc'[t] = "entry_check" =>
            /\ idx'[t] = 1
            /\ update_list'[t][1] = Min(queue)
            /\ \A s \in queue : update_list'[t][1] <= s]_vars

\* the handling of an entry raised after an earlier entry had been applied
\* and deleted: the later entries are in the queue
C5_Witness ==
  \E t \in Tokens :
    /\ pc[t] = "exc" /\ exc[t] \in {"search", "txn", "txn_delete"}
    /\ 1 \notin queue /\ handoffs["binder"][1] = 1
    /\ queue = {s \in Seqs : 1 < s /\ s < nextSeq}
    /\ queue # {}

\* ---------------------------------------------------------------------
\* positions inside the regular processing loop (lines 100-162)
LoopPcs == {"loop_enter", "loop_check", "fetch", "idle", "entry_check",
            "search", "search_failed", "txn", "txn_delete", "exc"}

\* C6: no exception ends the drain loop: the loop is left only at the loop
\* check, when the still-running check is false; after an exception the
\* thread sleeps and goes back to the loop check, which leads to the next
\* fetch while the check is true; from the handler the thread reaches the
\* next fetch unless the check has become false.
C6_LoopSurvivesExceptions ==
  /\ [][\A t \in Tokens :
          /\ pc[t] \in LoopPcs /\ pc'[t] \notin LoopPcs =>
               /\ pc[t] \in {"loop_enter", "loop_check"}
               /\ ~CheckContinue(t)
               /\ pc'[t] = "deregister"
          /\ pc[t] \in RaisingPcs /\ pc'[t] \notin EntryPcs \cup LoopPcs =>
               FALSE
          /\ pc[t] = "exc" /\ pc'[t] # "exc" => pc'[t] = "loop_check"
          /\ pc[t] \in {"loop_enter", "loop_check"} /\ CheckContinue(t)
               /\ pc'[t] # pc[t] => pc'[t] = "fetch"]_vars
  /\ \A t \in Tokens :
       (pc[t] = "exc") ~> (pc[t] = "fetch" \/ ~CheckContinue(t))

\* an exception raised while an entry was handled has been caught: the
\* thread is in the handler, registered and still running
C6_Witness ==
  \E t \in Tokens :
    /\ pc[t] = "exc" /\ exc[t] \in EntryPcs
    /\ CheckContinue(t) /\ t \in runningThreads

\* ---------------------------------------------------------------------
\* C7: a new generation does not enter the regular processing loop while
\* the token of another generation is registered, unless its accumulated
\* wait exceeded the ceiling.
C7_EntersAlone ==
  [][\A t \in Tokens :
       pc[t] = "loop_enter" /\ pc'[t] = "fetch" =>
         runningThreads = {t} \/ t \in errorLog]_vars

\* ---------------------------------------------------------------------
\* C8: when the previous generation is still registered and the accumulated
\* wait is above the ceiling, the new generation logs the violation and
\* goes on to the regular processing loop, which it enters if the
\* still-running check holds; it stays registered and does not end.
C8_CeilingLoggedNotFatal ==
  [][\A t \in Tokens :
       /\ pc[t] = "wait_poll" /\ pc'[t] # "wait_poll"
            /\ Cardinality(runningThreads) # 1
            /\ totalWaitTime[t] > WaitCeiling =>
               /\ t \in errorLog'
               /\ pc'[t] = "loop_enter"
               /\ t \in runningThreads'
       /\ pc[t] = "loop_enter" /\ t \in errorLog /\ CheckContinue(t)
            /\ pc'[t] # pc[t] => pc'[t] = "fetch"
       /\ t \in errorLog' /\ t \notin errorLog => pc[t] = "wait_poll"]_vars

\* a generation that logged the violation handles an entry while the
\* previous generation is still registered
C8_Witness ==
  \E t \in Tokens :
    /\ t \in errorLog
    /\ pc[t] \in EntryPcs
    /\ \E u \in runningThreads : u # t

\* ---------------------------------------------------------------------
\* thread t has added its token and not yet removed it
Registered(t) ==
  pc[t] \notin {"unborn", "register", "register_add", "done"}

\* C9: the running set holds exactly the tokens of the threads that have
\* registered and not yet exited; it changes only by a thread that holds
\* the lock adding its own token at its start or removing its own token at
\* its exit.
C9_RunningSetExact ==
  /\ [](runningThreads = {t \in Tokens : Registered(t)})
  /\ [][runningThreads' # runningThreads =>
          \E t \in Tokens :
            /\ lock = t
            /\ \/ /\ pc[t] = "register_add"
                  /\ t \notin runningThreads
                  /\ runningThreads' = runningThreads \cup {t}
               \/ /\ pc[t] = "deregister_remove" /\ pc'[t] = "done"
                  /\ t \in runningThreads
                  /\ runningThreads' = runningThreads \ {t}]_vars

\* one thread has exited and the token of another one is registered
C9_Witness ==
  \E t, u \in Tokens :
    pc[t] = "done" /\ t \notin runningThreads /\ u \in runningThreads

\* ---------------------------------------------------------------------
\* C10: the still-running check is true for a generation exactly when
\* background processing is enabled and its token is the most recently
\* created one, so it is true for at most one generation; a fetch and the
\* handling of an entry start only from a check that was true.
C10_StillRunningCheck ==
  /\ [](\A t \in Tokens : CheckContinue(t) <=> (enabled /\ t = created))
  /\ [](Cardinality({t \in Tokens : CheckContinue(t)}) <= 1)
  /\ [][\A t \in Tokens :
          /\ pc'[t] = "fetch" /\ pc[t] # "fetch" =>
               pc[t] \in {"loop_enter", "loop_check"} /\ CheckContinue(t)
          /\ pc'[t] \in {"search", "txn"} /\ pc[t] \notin EntryPcs =>
               pc[t] = "entry_check" /\ CheckContinue(t)]_vars

\* the check is true for the thread that handles an entry and false for
\* an older thread that has not exited
C10_Witness ==
  \E t, u \in Tokens :
    /\ CheckContinue(t) /\ pc[t] \in EntryPcs
    /\ u # t /\ Registered(u) /\ ~CheckContinue(u)

\* ---------------------------------------------------------------------
\* thread t commits the transaction of the entry it handles
Commits(t) == pc[t] = "txn_delete" /\ pc'[t] = "entry_check"

\* C11: for an entry whose identifier is reserved no hand-off is ever
\* committed to any authority, and its transaction, reached after the
\* search-index step (the projection has returned, or was skipped for an
\* identifier without owner), still deletes the entry from the queue.
C11_ReservedNoHandoff ==
  /\ [](\A s \in Seqs : entry[s].isReserved =>
          \A a \in Authorities : handoffs[a][s] = 0)
  /\ [][\A t \in Tokens :
          /\ pc[t] = "txn" /\ pc'[t] = "txn_delete"
               /\ entry[Current(t)].isReserved => pending'[t] = {}
          /\ Commits(t) /\ entry[Current(t)].isReserved =>
               /\ handoffs' = handoffs
               /\ Current(t) \notin queue'
               /\ projected[t] \/ ~entry[Current(t)].owned]_vars

\* the entry of a reserved identifier with an owner has been projected and
\* deleted, and nothing was handed off for it
C11_Witness ==
  /\ entry[1].isReserved /\ entry[1].owned
  /\ 1 < nextSeq /\ 1 \notin queue
  /\ searchIndex[entry[1].identifier] = 1
  /\ \A a \in Authorities : handoffs[a][1] = 0

\* ---------------------------------------------------------------------
\* C12 as stated: the transaction of a non-reserved entry commits a binder
\* hand-off, a DataCite hand-off if updateExternalServices, isDatacite and
\* not isTest, and otherwise a Crossref hand-off if isCrossref.
C12_Original ==
  [][\A t \in Tokens :
       Commits(t) /\ ~entry[Current(t)].isReserved =>
         Committed(Current(t)) = Handoffs_CrossrefOtherwise(entry[Current(t)])
    ]_vars

\* C12 as amended: for every combination of the flags of a non-reserved
\* entry the transaction commits a binder hand-off; a DataCite hand-off
\* exactly if updateExternalServices, isDatacite and not isTest; a Crossref
\* hand-off exactly if updateExternalServices, not isDatacite and
\* isCrossref; never both.
C12_HandoffsByFlags ==
  [][\A t \in Tokens :
       Commits(t) /\ ~entry[Current(t)].isReserved =>
         LET e == entry[Current(t)]
             made == Committed(Current(t))
         IN /\ "binder" \in made
            /\ "datacite" \in made <=>
                 (e.updateExternalServices /\ e.isDatacite /\ ~e.isTest)
            /\ "crossref" \in made <=>
                 (e.updateExternalServices /\ ~e.isDatacite /\ e.isCrossref)
            /\ ~("datacite" \in made /\ "crossref" \in made)]_vars

\* the entry of a Crossref identifier whose external services are not to be
\* updated has been committed with the binder hand-off only
C12_Witness ==
  /\ ~entry[1].isReserved /\ entry[1].isCrossref
  /\ ~entry[1].updateExternalServices /\ ~entry[1].isDatacite
  /\ 1 < nextSeq /\ 1 \notin queue
  /\ handoffs["binder"][1] = 1
  /\ handoffs["datacite"][1] = 0 /\ handoffs["crossref"][1] = 0

\* ---------------------------------------------------------------------
\* C13: when the still-running check is false at the retry of a failed
\* search projection, the projection is aborted and the thread leaves the
\* batch: the step leads to the loop check of line 100, deletes no entry,
\* commits no hand-off, leaves the search index alone and drops the batch
\* with the open work on it; a thread handles an entry only out of a batch
\* it fetched after a loop check that was true.
C13_AbortStopsBatch ==
  [][\A t \in Tokens :
       /\ pc[t] = "search_failed" /\ ~CheckContinue(t) /\ pc'[t] # pc[t] =>
            /\ pc'[t] = "loop_check"
            /\ queue' = queue
            /\ handoffs' = handoffs
            /\ searchIndex' = searchIndex
            /\ update_list'[t] = <<>> /\ pending'[t] = {}
       /\ update_list'[t] # <<>> /\ update_list[t] = <<>> => pc[t] = "fetch"
       /\ pc'[t] \in EntryPcs /\ pc[t] \notin EntryPcs =>
            /\ pc[t] = "entry_check"
            /\ update_list[t] # <<>> /\ idx[t] <= Len(update_list[t])]_vars

\* the still-running check has become false while the projection of the
\* first entry of a batch of two is being retried
C13_Witness ==
  \E t \in Tokens :
    /\ pc[t] = "search_failed" /\ ~CheckContinue(t)
    /\ idx[t] = 1 /\ Len(update_list[t]) = 2
    /\ \A j \in 1..2 : update_list[t][j] \in queue
    /\ \A a \in Authorities : \A s \in Seqs : handoffs[a][s] = 0

\* ---------------------------------------------------------------------
\* every entry created so far has been deleted and no thread is handling one
Drained ==
  /\ nextSeq > 1 /\ queue = {}
  /\ \A t \in Tokens : pc[t] \notin EntryPcs

\* the sequence numbers of the entries created so far for identifier id
EntriesFor(id) == {s \in Seqs : s < nextSeq /\ entry[s].identifier = id}

\* C14: entries for the same identifier are applied to the search index in
\* ascending sequence order: once the queue has been drained, the search
\* index holds the document of the last entry of an owned identifier if
\* that entry was a create or an update, and no document if it was a
\* delete.
C14_IndexFollowsLastEntry ==
  Drained =>
    \A id \in Identifiers :
      (EntriesFor(id) # {} /\ \A s \in EntriesFor(id) : entry[s].owned) =>
        LET last == Max(EntriesFor(id)) IN
        IF entry[last].operation \in {"create", "update"}
        THEN searchIndex[id] = last
        ELSE searchIndex[id] = 0

\* ---------------------------------------------------------------------
\* positions of a call inside the attempt loop
LoopCpcs == {"attempt", "open", "handle", "sleep"}

\* caller c handles the response of an attempt of function f
Handles(c, f) == op[c] = f /\ cpc[c] = "handle" /\ cpc'[c] # "handle"

\* the call of caller c ends in this step
Ends(c) == cpc'[c] = "done" /\ slept'[c] = slept[c]
             /\ attempts'[c] = attempts[c]

\* C16: when every response is HTTP 500, registerIdentifier, getTargetUrl
\* and uploadMetadata each make exactly numAttempts network attempts, with
\* numAttempts - 1 sleeps between them, and then raise: a call that has
\* ended with every attempt answered 500 has raised, and while every
\* attempt so far was answered 500 it has no result and has made at most
\* numAttempts attempts.
C16_Only500Exhausts ==
  \A c \in Callers :
    (op[c] \in Functions /\ attempts[c] > 0
       /\ answered500[c] = attempts[c]) =>
      /\ cpc[c] = "done" =>
           /\ attempts[c] = numAttempts
           /\ slept[c] = numAttempts - 1
           /\ result[c] = RaiseError("HTTPError")
      /\ cpc[c] \in LoopCpcs =>
           /\ attempts[c] <= numAttempts
           /\ result[c] = NoResult

\* an upload has ended after two attempts that were both answered 500
C16_Witness ==
  \E c \in Callers :
    /\ op[c] = "uploadMetadata" /\ cpc[c] = "done"
    /\ answered500[c] = 2 /\ attempts[c] = 2
    /\ result[c].kind = "raise"

\* ---------------------------------------------------------------------
\* a response that C17 calls transient: a 5xx status or a transport error
Transient(r) == r.status >= 500 \/ r = TransportError

\* C17 as stated: a non-final attempt of registerIdentifier that ends with
\* any 5xx status or with a transport error is followed by another
\* attempt.
C17_Original ==
  [][\A c \in Callers :
       Handles(c, "registerIdentifier") /\ Transient(response[c])
         /\ ~LastAttempt(c) => cpc'[c] = "sleep"]_vars

\* C17 as amended: a non-final attempt of registerIdentifier that ends
\* with status 500 or with a transport error is followed by the sleep and
\* another attempt, and a final one raises; an attempt that ends with any
\* other 5xx status raises at once, whatever attempts remain.
C17_RetriesOn500 ==
  [][\A c \in Callers :
       /\ Handles(c, "registerIdentifier")
            /\ (response[c].status = 500 \/ response[c] = TransportError) =>
               IF LastAttempt(c)
               THEN Ends(c) /\ result'[c].kind = "raise"
               ELSE cpc'[c] = "sleep" /\ result'[c] = NoResult
       /\ Handles(c, "registerIdentifier")
            /\ response[c].status > 500 =>
               Ends(c) /\ result'[c] = RaiseError("HTTPError")
       /\ op[c] = "registerIdentifier" /\ cpc[c] = "sleep"
            /\ cpc'[c] # "sleep" =>
               /\ cpc'[c] = "attempt"
               /\ slept'[c] = slept[c] + 1]_vars

\* the second attempt of a registration is in flight after a 500 response
C17_Witness ==
  \E c \in Callers :
    /\ op[c] = "registerIdentifier" /\ cpc[c] = "open"
    /\ attempts[c] = 2 /\ slept[c] = 1 /\ answered500[c] = 1

\* ---------------------------------------------------------------------
\* C18: when an attempt of registerIdentifier is answered with 201 and
\* body OK, the function returns None right after that attempt, with no
\* further attempt, no sleep and no exception.
C18_SuccessReturnsNone ==
  [][\A c \in Callers :
       Handles(c, "registerIdentifier")
         /\ response[c] = [status |-> 201, body |-> <<"OK">>] =>
           Ends(c) /\ result'[c] = Return(None)]_vars

\* ---------------------------------------------------------------------
\* C19: a 400 response whose body starts with [url] makes
\* registerIdentifier return that body, and any other 4xx response makes
\* it raise at once; in both cases no further attempt is made: an ended
\* call only goes back to the caller.
C19_UrlRejectionReturned ==
  [][\A c \in Callers :
       /\ Handles(c, "registerIdentifier")
            /\ 400 <= response[c].status /\ response[c].status < 500 =>
               /\ Ends(c)
               /\ IF response[c].status = 400
                       /\ StartsWith(response[c].body, <<"[url]">>)
                  THEN result'[c] = Return(Bytes(response[c].body))
                  ELSE result'[c] = RaiseError("HTTPError")
       /\ op[c] = "registerIdentifier" /\ cpc[c] = "done"
            /\ cpc'[c] # "done" => cpc'[c] = "idle"]_vars

\* a registration has ended at its first attempt of several with the
\* message of the rejected URL field
C19_Witness ==
  \E c \in Callers :
    /\ op[c] = "registerIdentifier" /\ cpc[c] = "done"
    /\ numAttempts > 1 /\ attempts[c] = 1 /\ slept[c] = 0
    /\ result[c] = Return(Bytes(<<"[url]", "invalid">>))

\* ---------------------------------------------------------------------
\* C20: an attempt of getTargetUrl that is answered 404 makes it return
\* None, with no exception and no further attempt, also after earlier
\* attempts of the call were answered 500.
C20_NotFoundReturnsNone ==
  [][\A c \in Callers :
       /\ Handles(c, "getTargetUrl") /\ response[c].status = 404 =>
            Ends(c) /\ result'[c] = Return(None)
       /\ op[c] = "getTargetUrl" /\ cpc[c] = "done"
            /\ cpc'[c] # "done" => cpc'[c] = "idle"]_vars

\* a lookup has returned None at its second attempt, answered 404, after
\* a first attempt answered 500
C20_Witness ==
  \E c \in Callers :
    /\ op[c] = "getTargetUrl" /\ cpc[c] = "done"
    /\ attempts[c] = 2 /\ answered500[c] = 1
    /\ response[c].status = 404
    /\ result[c] = Return(None)

\* ---------------------------------------------------------------------
\* C15: with the DataCite integration disabled, draining a create entry of
\* an owned identifier leaves its document in the search index and the
\* entry deleted from the queue, and no network call is made at any point:
\* no attempt is made or in flight, whatever the worker of the DataCite
\* queue calls for the entry.
C15_DisabledNoHttp ==
  /\ [](~dcEnabled =>
          /\ numActiveOperations = 0
          /\ \A c \in Callers :
               attempts[c] = 0 /\ cpc[c] \notin LoopCpcs)
  /\ [][\A t \in Tokens :
          Commits(t) /\ entry[Current(t)].operation = "create"
            /\ entry[Current(t)].owned =>
              /\ searchIndex[entry[Current(t)].identifier] = Current(t)
              /\ Current(t) \notin queue']_vars

\* with the integration disabled the create entry has been drained and
\* the worker's call for it has returned None without an attempt
C15_Witness ==
  /\ ~dcEnabled
  /\ entry[1].operation = "create"
  /\ 1 < nextSeq /\ 1 \notin queue
  /\ searchIndex[entry[1].identifier] = 1
  /\ handoffs["binder"][1] = 1 /\ handoffs["datacite"][1] = 0
  /\ cpc[DataciteWorker] = "done"
  /\ result[DataciteWorker] = Return(None)
  /\ attempts[DataciteWorker] = 0

\* ---------------------------------------------------------------------
\* the call of uploadMetadata by caller c ends before its attempt loop
Skips(c) ==
  \/ ~args[c].requirementsMet
  \/ args[c].recordsEqual /\ ~args[c].forceUpload
  \/ ~dcEnabled

\* C21 as stated: a call of uploadMetadata ends without a network attempt
\* when the record built from current+delta equals the one built from
\* current and force is false, and with at least one and at most
\* numAttempts attempts of one upload in every other case.
C21_Original ==
  \A c \in Callers :
    op[c] = "uploadMetadata" /\ cpc[c] = "done" =>
      IF args[c].requirementsMet /\ args[c].recordsEqual
           /\ ~args[c].forceUpload
      THEN attempts[c] = 0
      ELSE 1 <= attempts[c] /\ attempts[c] <= numAttempts

\* C21 as amended: a call of uploadMetadata makes no network attempt when
\* the merged record cannot be built, when it equals the record built from
\* current and force is false, or when DataCite is disabled; in every
\* other case it makes one upload of at least one and at most numAttempts
\* attempts.
C21_UploadUnlessUnchanged ==
  \A c \in Callers :
    op[c] = "uploadMetadata" =>
      /\ Skips(c) => attempts[c] = 0 /\ cpc[c] = "done"
      /\ ~Skips(c) /\ cpc[c] = "done" => 1 <= attempts[c]
      /\ attempts[c] <= numAttempts

\* an unchanged record has been uploaded because the upload was forced, in
\* two attempts
C21_Witness ==
  \E c \in Callers :
    /\ op[c] = "uploadMetadata" /\ cpc[c] = "done"
    /\ args[c].recordsEqual /\ args[c].forceUpload
    /\ attempts[c] = 2 /\ slept[c] = 1

\* ---------------------------------------------------------------------
\* C22: an attempt of uploadMetadata that is answered 400 or 422 makes the
\* function return a message that contains the body of the response, with
\* no exception and no further attempt.
C22_ValidationMessageReturned ==
  [][\A c \in Callers :
       /\ Handles(c, "uploadMetadata")
            /\ response[c].status \in {400, 422} =>
               /\ Ends(c)
               /\ result'[c] =
                    Return(Str(<<"element 'datacite': ">>
                                 \o response[c].body))
       /\ op[c] = "uploadMetadata" /\ cpc[c] = "done"
            /\ frame[c] = "none" /\ cpc'[c] # "done" =>
               cpc'[c] = "idle"]_vars

\* an upload has ended at its second attempt with the message of a 422
\* response, after a first attempt answered 500
C22_Witness ==
  \E c \in Callers :
    /\ op[c] = "uploadMetadata" /\ cpc[c] = "done" /\ frame[c] = "none"
    /\ attempts[c] = 2 /\ answered500[c] = 1
    /\ response[c].status = 422
    /\ result[c] =
         Return(Str(<<"element 'datacite': ", "[xml]", "invalid">>))

\* ---------------------------------------------------------------------
\* the registry accepts the request: status 201 with body OK
Accepted == [status |-> 201, body |-> <<"OK">>]

\* deactivate of caller c goes on after the function it called has ended
Resumes(c) == cpc[c] = "done" /\ frame'[c] # frame[c]

\* C23: when the first deactivation request of deactivate is answered 404,
\* deactivate uploads the placeholder record, and when the registry has
\* accepted the upload it issues the deactivation request again; the
\* second deactivation only follows the upload, the upload only follows a
\* 404 of the first deactivation (so there is at most one per call), and a
\* 404 on the second deactivation is raised to the caller.
C23_PlaceholderThenDeactivate ==
  [][\A c \in Callers :
       /\ frame[c] = "deactivate606" /\ Resumes(c)
            /\ response[c].status = 404 =>
               frame'[c] = "deactivate612" /\ op'[c] = "uploadMetadata"
       /\ frame'[c] = "deactivate612" /\ frame[c] # "deactivate612" =>
               frame[c] = "deactivate606" /\ response[c].status = 404
       /\ frame[c] = "deactivate612" /\ Resumes(c)
            /\ response[c] = Accepted =>
               frame'[c] = "deactivate626" /\ op'[c] = "_deactivate"
       /\ frame'[c] = "deactivate626" /\ frame[c] # "deactivate626" =>
               frame[c] = "deactivate612"
       /\ frame[c] = "deactivate626" /\ Resumes(c)
            /\ response[c].status = 404 =>
               /\ frame'[c] = "none" /\ op'[c] = "deactivate"
               /\ result'[c] = RaiseError("HTTPError")]_vars

\* ---------------------------------------------------------------------
\* C24: ping never raises; it returns "up" when DataCite is disabled or the
\* registration round trip succeeded (its last request was accepted) and
\* "down" after every failure of the round trip.
C24_PingStatus ==
  \A c \in Callers :
    op[c] = "ping" /\ cpc[c] = "done" =>
      IF ~dcEnabled \/ response[c] = Accepted
      THEN result[c] = Return(Str(<<"up">>))
      ELSE result[c] = Return(Str(<<"down">>))

\* ---------------------------------------------------------------------
\* the callers whose network call is in flight: between
\* _modifyActiveCount(1) and _modifyActiveCount(-1)
InFlight == {c \in Callers : cpc[c] \in {"open", "handle"}}

\* C25: with any number of callers at any point of their operations, the
\* active-operation counter equals the number of network calls in flight:
\* it is never negative, it counts every attempt from before its request
\* until after its response or exception is handled, and it is 0 when no
\* call is in flight.
C25_CounterCountsInFlight ==
  /\ numActiveOperations = Cardinality(InFlight)
  /\ numActiveOperations >= 0
  /\ (\A c \in Callers : cpc[c] \in {"idle", "done"}) =>
       numActiveOperations = 0

\* two calls are in flight at once, one of them in its second attempt
\* after a 500 response, and the counter is 2
C25_Witness ==
  \E c, d \in Callers :
    /\ c # d
    /\ cpc[c] = "handle" /\ response[c].status = 500 /\ attempts[c] = 2
    /\ cpc[d] = "open"
    /\ numActiveOperations = 2

\* The record that validateDcmsRecord was called with reaches the test of
\* the identifier type: the text is well-formed XML of a supported
\* encoding, its root is a DataCite resource of a supported version and it
\* has one identifier element that declares a type.
ReachesTypeTest ==
  /\ ~document.prolog.present
       \/ (document.prolog.version = "1.0"
             /\ document.prolog.encoding \in {"none", "utf8"})
  /\ document.parse = "resource"
  /\ document.record.version \in Schemas \cup Deprecated
  /\ Len(document.record.identifiers) = 1
  /\ document.record.identifiers[1].identifierType # "none"

\* The identifier element of the record declares another type than the
\* one of the identifier's scheme, or the scheme has no type.
TypeDiffers ==
  \/ document.scheme \notin {"doi:", "ark:/", "uuid:"}
  \/ \E i \in 1..Len(document.record.identifiers) :
       /\ document.record.identifiers[i].identifierType # "none"
       /\ document.record.identifiers[i].identifierType #
            (CASE document.scheme = "doi:" -> "DOI"
               [] document.scheme = "ark:/" -> "ARK"
               [] document.scheme = "uuid:" -> "UUID")

\* C26: validateDcmsRecord fails, and returns no record, whenever the
\* identifier element declares a type other than the one derived from the
\* identifier's scheme or the scheme is not recognized; when the record
\* reaches the test of the type, the failure is the type mismatch, and
\* the unrecognized scheme respectively.
C26_TypeMismatchFails ==
  (document.fn = "validateDcmsRecord" /\ returned.kind # "none"
     /\ TypeDiffers)
    => /\ returned.kind = "raise"
       /\ ReachesTypeTest =>
            returned.value =
              IF document.scheme \in {"doi:", "ark:/", "uuid:"}
              THEN "mismatch between identifier type and <identifier> element"
              ELSE "unrecognized identifier scheme"

\* an ARK identifier was validated with a record, valid for its schema,
\* whose identifier element declares a DOI, and the call failed with the
\* type mismatch
C26_Witness ==
  /\ document.fn = "validateDcmsRecord"
  /\ document.scheme = "ark:/"
  /\ ReachesTypeTest
  /\ document.record.identifiers[1].identifierType = "DOI"
  /\ document.schemaValid
  /\ returned =
       Raises("mismatch between identifier type and <identifier> element")

\* The step is an application of upgradeDcmsRecord.
Applies ==
  /\ document.fn = "upgradeDcmsRecord"
  /\ document'.applications = document.applications + 1

\* C27: upgradeDcmsRecord applied to a record of the current version
\* changes no element (only the schema location attribute of the root is
\* set), and applied to the record that it returned it returns that
\* record again.
C27_UpgradeIdempotent ==
  [][Applies =>
       /\ document.record.version = "4" =>
            /\ returned'.kind = "return"
            /\ [returned'.value EXCEPT !.schemaLocation = NoLocation]
                 = [document.record EXCEPT !.schemaLocation = NoLocation]
       /\ document.applications > 0 =>
            /\ returned'.kind = "return"
            /\ returned'.value = returned.value]_vars

\* the function was applied twice to a record of an older version; the
\* first application converted a Film resource type and a point
C27_Witness ==
  /\ document.fn = "upgradeDcmsRecord"
  /\ document.applications = 2
  /\ returned.kind = "return"
  /\ returned.value.resourceType
       = <<[general |-> "Audiovisual", text |-> "t"]>>
  /\ returned.value.point.present
  /\ Len(returned.value.point.children) = 2
  /\ returned.value.funding # <<>>

\* What the specification says upgradeDcmsRecord makes of a geolocation
\* element e without sub-elements: n values give the sub-elements named
\* by tags, which hold the values of the text at the positions from; any
\* other number of values (a text with no value included) removes the
\* element.
Decomposed(e, n, tags, from) ==
  IF e.text.type = "str" /\ Len(e.text.text) = n
  THEN Element(None, [i \in 1..n |->
                        [tag |-> tags[i], text |-> e.text.text[from[i]]]])
  ELSE Absent

\* C28: upgradeDcmsRecord turns a point with exactly two values into a
\* longitude and a latitude sub-element with the second and the first
\* value and removes a point with any other number of values; a box is
\* decomposed in the same way when it has four values and removed
\* otherwise.
C28_GeometryDecomposed ==
  [][(Applies /\ ~document.record.version = "4"
        /\ Len(document.record.resourceType) <= 1)
       => /\ returned'.kind = "return"
          /\ (document.record.point.present
                /\ document.record.point.children = <<>>)
               => returned'.value.point =
                    Decomposed(document.record.point, 2,
                               <<"pointLongitude", "pointLatitude">>,
                               <<2, 1>>)
          /\ (document.record.box.present
                /\ document.record.box.children = <<>>)
               => returned'.value.box =
                    Decomposed(document.record.box, 4,
                               <<"westBoundLongitude", "eastBoundLongitude",
                                 "southBoundLatitude", "northBoundLatitude">>,
                               <<2, 4, 1, 3>>)]_vars

\* formRecord was called with an identifier of a recognized scheme and has
\* ended.
Formed ==
  /\ document.fn = "formRecord"
  /\ document.scheme \in {"doi:", "ark:/", "uuid:"}
  /\ returned.kind # "none"

\* The metadata of the call have a value for key k that is not blank.
NonBlank(k) ==
  k \in DOMAIN document.metadata /\ document.metadata[k] # " "

\* The profile of the call is the Crossref one: the profile argument, or
\* without it the profile field of the metadata.
DepositProfile ==
  \/ document.profile = "crossref"
  \/ /\ document.profile = "None"
     /\ "_p" \in DOMAIN document.metadata
     /\ document.metadata["_p"] = "crossref"

\* C29: formRecord returns a non-blank DataCite record of the metadata,
\* whatever the profile and whatever fields are missing; only without one,
\* and with the Crossref profile and a non-blank Crossref record, it
\* returns the converted Crossref record, in which the DataCite fields
\* supplied in the metadata override the converted values; only otherwise
\* it builds the record from the mapped fields.
C29_Precedence ==
  Formed =>
    IF NonBlank("datacite")
    THEN /\ returned.kind = "return"
         /\ returned.value.source = "datacite"
         /\ returned.value.body = document.metadata["datacite"]
    ELSE IF DepositProfile /\ NonBlank("crossref")
    THEN /\ returned.kind = "return" <=> document.convertOk
         /\ returned.kind = "return" =>
              /\ returned.value.source = "crossref"
              /\ returned.value.body = document.metadata["crossref"]
              /\ NonBlank("datacite.title") =>
                   <<"datacite.title", document.metadata["datacite.title"]>>
                     \in returned.value.overrides
              /\ ~NonBlank("datacite.title") =>
                   \A o \in returned.value.overrides :
                     o[1] # "datacite.title"
    ELSE returned.kind = "return" => returned.value.source = "mapped"

\* the DataCite record of the metadata was returned although the profile
\* is the Crossref one, a Crossref record is supplied too and the mapped
\* fields lack a creator
C29_Witness ==
  /\ Formed
  /\ NonBlank("datacite")
  /\ DepositProfile
  /\ NonBlank("crossref")
  /\ document.km["creator"] = None
  /\ ~document.supplyMissing
  /\ returned.kind = "return"
  /\ returned.value.source = "datacite"

\* The call of formRecord takes the field-mapping path.
MappingPath ==
  /\ Formed
  /\ ~NonBlank("datacite")
  /\ ~(DepositProfile /\ NonBlank("crossref"))

\* the required fields that the mapped metadata lack
MissingFields ==
  {a \in {"creator", "title", "publisher", "date"} : document.km[a] = None}

\* the field of the record that holds required field a
RecordField(a) == IF a = "date" THEN "publicationYear" ELSE a

C33_WaitWithinCeiling ==
  \A t \in Tokens : totalWaitTime[t] <= WaitCeiling

\* ---------------------------------------------------------------------
\* C37: no queue entry leads to more than one committed hand-off to the
\* queue of an authority.
C37_OneHandoffPerAuthority ==
  \A a \in Authorities : \A s \in Seqs : handoffs[a][s] <= 1

\* ---------------------------------------------------------------------
\* thread t is at an entry of its batch whose identifier has no owner
AtOwnerless(t) ==
  /\ pc[t] \in EntryPcs \cup {"entry_check"}
  /\ idx[t] \in 1..Len(update_list[t])
  /\ ~entry[Current(t)].owned

\* C40: while the drainer is at an entry whose identifier has no owner it
\* leaves the search index unchanged and does not call the projection,
\* whatever the operation; the entry is deleted in the step that commits
\* the hand-offs its flags require, as for an entry with an owner.
C40_OwnerlessLeavesIndex ==
  [][\A t \in Tokens :
       AtOwnerless(t) =>
         /\ searchIndex' = searchIndex
         /\ pc'[t] \notin {"search", "search_failed"}
         /\ pc[t] = "entry_check" /\ CheckContinue(t) /\ pc'[t] # pc[t]
              => pc'[t] = "txn"
         /\ Deletes(Current(t)) =>
              Committed(Current(t)) =
                IF entry[Current(t)].isReserved THEN {}
                ELSE {"binder"}
                       \cup {a \in {"datacite"} :
                               /\ entry[Current(t)].updateExternalServices
                               /\ entry[Current(t)].isDatacite
                               /\ ~entry[Current(t)].isTest}
                       \cup {a \in {"crossref"} :
                               /\ entry[Current(t)].updateExternalServices
                               /\ ~entry[Current(t)].isDatacite
                               /\ entry[Current(t)].isCrossref}]_vars

\* an entry that creates or updates an identifier without owner has been
\* handed to the binder queue and deleted, and the search index has no
\* document of the identifier
C40_Witness ==
  \E s \in Seqs :
    /\ s < nextSeq /\ s \notin queue
    /\ ~entry[s].owned
    /\ entry[s].operation \in {"create", "update"}
    /\ handoffs["binder"][s] = 1
    /\ searchIndex[entry[s].identifier] = 0

\* ---------------------------------------------------------------------
\* C39: while the DataCite integration is disabled no function of the
\* client makes a network call and the count of active operations stays
\* at zero: no caller has made an attempt or is inside the attempt loop.
C39_DisabledNoNetwork ==
  ~dcEnabled =>
    /\ numActiveOperations = 0
    /\ \A c \in Callers :
         /\ attempts[c] = 0
         /\ cpc[c] \notin {"attempt", "open", "handle", "sleep"}

\* ---------------------------------------------------------------------
\* generation t has been started and has not ended
Live(t) == pc[t] \notin {"unborn", "done"}

\* generation t has ended and its token is not in the running set
Gone(t) == pc[t] = "done" /\ t \notin runningThreads

\* positions before the regular processing loop
WaitPcs == {"register", "register_add", "wait_check", "wait_poll",
            "wait_sleep", "loop_enter"}

\* C34: a generation that has been superseded eventually ends with its
\* token removed from the running set, wherever it was; a generation that
\* has been disabled does so unless background processing is enabled
\* again; a generation superseded before or during its hand-off wait goes
\* from the wait to the deregistration without fetching a batch.
C34_StoppedGenerationLeaves ==
  /\ \A t \in Tokens : (Live(t) /\ threadName # t) ~> Gone(t)
  /\ \A t \in Tokens : (Live(t) /\ ~enabled) ~> (Gone(t) \/ enabled)
  /\ [][\A t \in Tokens :
          threadName # t /\ pc[t] \in WaitPcs =>
            pc'[t] \in WaitPcs \cup {"deregister"}]_vars

\* generation 1 was superseded in the middle of the queue: it has deleted
\* one entry and has ended with its token removed, while another entry is
\* left and generation 2 has not entered the regular processing
C34_Witness ==
  /\ Gone(1)
  /\ threadName = 2 /\ pc[2] \in WaitPcs
  /\ \E s1, s2 \in Seqs :
       /\ s1 < nextSeq /\ s1 \notin queue /\ handoffs["binder"][s1] = 1
       /\ s2 \in queue

\* ---------------------------------------------------------------------
\* C36: the still-running check is monotone for a started generation: once
\* it is false (the generation was disabled or superseded) no later step,
\* and so no later configuration load, makes it true again.
C36_CheckStaysFalse ==
  [][\A t \in Tokens :
       Live(t) /\ ~CheckContinue(t) => ~CheckContinue(t)']_vars

\* ---------------------------------------------------------------------
\* the projection of entry s raises every time it is made
Invalid(s) == entry[s].owned /\ entry[s].operation \notin Operations

IdlePcs == {"loop_check", "fetch", "idle"}

Inside(c, v) ==
  validation[c].at \in {"validate", "finally"} /\ validation[c].version = v

\* C35: at most one thread at a time is inside the validator of a schema
\* version; a thread that waits for the lock of a version is held up only
\* by a thread inside the validator of that version; a thread that has
\* left the validation, by return or by exception, holds no lock; and a
\* lock that is held is eventually released.
C35_SchemaLockExclusive ==
  /\ [](\A v \in Schemas : Cardinality({c \in Callers : Inside(c, v)}) <= 1)
  /\ [](\A c \in Callers :
          (/\ validation[c].at = "acquire"
           /\ \A c2 \in Callers : ~Inside(c2, validation[c].version))
            => schemaLock[validation[c].version] = 0)
  /\ [](\A c \in Callers :
          validation[c].at = "outside" =>
            \A v \in Schemas : schemaLock[v] # c)
  /\ \A v \in Schemas : (schemaLock[v] # 0) ~> (schemaLock[v] = 0)

\* a thread whose last validation failed waits for the lock of a version
\* while another thread is inside the validator of that version
C35_Witness ==
  \E c1, c2 \in Callers : \E v \in Schemas :
    /\ Inside(c1, v) /\ schemaLock[v] = c1
    /\ validation[c2].at = "acquire" /\ validation[c2].version = v
    /\ validation[c2].outcome = "raise"

\* ---------------------------------------------------------------------
\* C32: a generation that has been disabled or superseded deletes at most
\* one queue entry after that moment (the entry it was processing).
C32_AtMostOneFurtherEntry ==
  \A t \in Tokens : further[t] # "more"

====
